---- MODULE Spec2Model ----
(***************************************************************************)
(* Server side of the video library (src/src/mod.ts): the FFmpegProcessor  *)
(* operations as a state machine.  A call of an operation is a coroutine:  *)
(* it runs synchronously up to its next `await`, and each await (temp dir, *)
(* file write, process exit, stat, remove) is one step of the model.       *)
(* The process runner and the file store are collaborators: their results  *)
(* (success, failure, thrown error) are chosen nondeterministically.       *)
(***************************************************************************)
EXTENDS Integers, Sequences, FiniteSets, TLC

VARIABLES processor, calls, fs, now, fresh, defaultProcessor, api, made,
          stored, begun, failed

vars == <<processor, calls, fs, now, fresh, defaultProcessor, api, made,
          stored, begun, failed>>
\* the state of the module-level functions
moduleVars == <<defaultProcessor, api, made, stored, begun, failed>>

(***************************************************************************)
(* Bounds of the model.                                                    *)
(***************************************************************************)
MaxNum == 2        \* numeric option values and buffer lengths are 0..MaxNum
MaxInputs == 3     \* merge receives 0..MaxInputs input paths
MaxTime == 1       \* Date.now() takes the values 0..MaxTime
NumCalls == 2      \* calls in flight together in ConcSpec
NumApiCalls == 3   \* ApiSpec makes NumApiCalls calls, NumCalls at a time

Nums == 0..MaxNum

(***************************************************************************)
(* Optional values: `undefined` is None, a supplied value x is Some(x).    *)
(* TruthyNum / TruthyStr are JavaScript's truthiness of an optional number *)
(* or string: undefined, 0 and "" are falsy.                               *)
(***************************************************************************)
None == <<>>
Some(x) == <<x>>
Opt(S) == {None} \cup {Some(x) : x \in S}
TruthyNum(v) == v # None /\ v[1] # 0
TruthyStr(v) == v # None /\ v[1] # ""

\* String(n) of an integer.
String(n) == ToString(n)

(***************************************************************************)
(* Argument vectors.                                                       *)
(***************************************************************************)
Tokens(args) == {args[i] : i \in 1..Len(args)}
\* the vector holds flag immediately followed by value
HasPair(args, flag, value) ==
  \E i \in 1..(Len(args) - 1) : args[i] = flag /\ args[i + 1] = value
\* the values that follow an occurrence of flag
ValuesOf(args, flag) ==
  {args[i + 1] : i \in {j \in 1..(Len(args) - 1) : args[j] = flag}}

(***************************************************************************)
(* Strings, character by character.                                        *)
(***************************************************************************)
\* s.charAt(i - 1): positions count from 1 here
CharAt(s, i) == SubSeq(s, i, i)

UpperCase == "ABCDEFGHIJKLMNOPQRSTUVWXYZ"
LowerCase == "abcdefghijklmnopqrstuvwxyz"
lowerChar(ch) ==
  IF \E i \in 1..Len(UpperCase) : CharAt(UpperCase, i) = ch
  THEN CharAt(LowerCase, CHOOSE i \in 1..Len(UpperCase) :
                           CharAt(UpperCase, i) = ch)
  ELSE ch

\* The string made of the given pieces, in order.
RECURSIVE Concat(_)
Concat(parts) ==
  IF Len(parts) = 0 THEN ""
  ELSE IF Len(parts) = 1 THEN parts[1]
  ELSE LET half == Len(parts) \div 2
       IN  Concat(SubSeq(parts, 1, half))
             \o Concat(SubSeq(parts, half + 1, Len(parts)))

\* String.prototype.toLowerCase
toLowerCase(s) == Concat([i \in 1..Len(s) |-> lowerChar(CharAt(s, i))])

\* What an object literal inherits: the members of Object.prototype whose
\* names are in lower case, as the text String() gives for them.  (The
\* members with a capital in their name cannot be reached with a key that
\* went through toLowerCase.)
ObjectPrototype(key) ==
  CASE key = "constructor" -> Some("function Object() { [native code] }")
    [] key = "__proto__" -> Some("[object Object]")
    [] OTHER -> None

\* codecMap[key] of convert: the encoder name, an inherited member, or
\* undefined (None).
codecMap(key) ==
  CASE key = "h264" -> Some("libx264")
    [] key = "h265" -> Some("libx265")
    [] key = "hevc" -> Some("libx265")
    [] key = "vp9" -> Some("libvpx-vp9")
    [] key = "av1" -> Some("libaom-av1")
    [] key = "vp8" -> Some("libvpx")
    [] OTHER -> ObjectPrototype(key)

\* A plausible slip: the map is not consulted.
qualityPresetAlwaysMedium(quality) ==
  "medium"

\* qualityMap[quality] || "medium" of convert and compress.
qualityPreset(quality) ==
  CASE quality = "low" -> "fast"
    [] quality = "medium" -> "medium"
    [] quality = "high" -> "slow"
    [] OTHER -> "medium"

\* A plausible slip: the codec name is compared as it was given.
codecLowerOfAsGiven(options) ==
  options.codec

\* options.codec?.toLowerCase()
codecLowerOf(options) ==
  IF options.codec = None THEN None ELSE Some(toLowerCase(options.codec[1]))

\* A plausible slip: the constant-quality pair is pushed only with the
\* default effort, not for an explicit quality.
av1ArgsCrfOnlyDefault(options) ==
  (IF options.quality = Some("low") THEN <<"-cpu-used", "8">>
   ELSE IF options.quality = Some("medium") THEN <<"-cpu-used", "4">>
   ELSE IF options.quality = Some("high") THEN <<"-cpu-used", "1">>
   ELSE <<"-cpu-used", "4">> \o
        (IF ~TruthyNum(options.bitrate) THEN <<"-crf", "30">> ELSE <<>>))

\* The AV1 block of convert: encoder effort, then the constant-quality pair
\* when no bitrate is given.
av1Args(options) ==
  (IF options.quality = Some("low") THEN <<"-cpu-used", "8">>
   ELSE IF options.quality = Some("medium") THEN <<"-cpu-used", "4">>
   ELSE IF options.quality = Some("high") THEN <<"-cpu-used", "1">>
   ELSE <<"-cpu-used", "4">>)
  \o (IF ~TruthyNum(options.bitrate) THEN <<"-crf", "30">> ELSE <<>>)

convertArgs(video, options) ==
  LET codecLower == codecLowerOf(options)
      mapped == IF TruthyStr(codecLower) THEN codecMap(codecLower[1])
                ELSE None
      codec == IF TruthyStr(mapped) THEN mapped[1] ELSE options.codec[1]
  IN  <<"-i", video>>
      \o (IF TruthyStr(options.codec)
          THEN <<"-c:v", codec>>
               \o (IF codecLower = Some("av1") THEN av1Args(options)
                   ELSE <<>>)
          ELSE <<>>)
      \o (IF TruthyStr(options.resolution)
          THEN <<"-s", options.resolution[1]>> ELSE <<>>)
      \o (IF TruthyNum(options.fps)
          THEN <<"-r", String(options.fps[1])>> ELSE <<>>)
      \o (IF TruthyNum(options.bitrate)
          THEN <<"-b:v", String(options.bitrate[1])>> ELSE <<>>)
      \o (IF TruthyStr(options.quality) /\ codecLower # Some("av1")
          THEN <<"-preset", qualityPreset(options.quality[1])>> ELSE <<>>)
      \o (IF codecLower = Some("av1") THEN <<"-c:a", "libopus">>
          ELSE <<"-c:a", "aac">>)
      \o <<"-y", options.output>>

compressArgs(video, options) ==
  <<"-i", video>>
  \o (IF TruthyNum(options.bitrate)
      THEN <<"-b:v", String(options.bitrate[1])>> ELSE <<>>)
  \o (IF TruthyStr(options.resolution)
      THEN <<"-s", options.resolution[1]>> ELSE <<>>)
  \o (IF TruthyStr(options.quality)
      THEN <<"-preset", qualityPreset(options.quality[1])>> ELSE <<>>)
  \o <<"-c:v", "libx264">>
  \o <<"-c:a", "aac">>
  \o <<"-y", options.output>>

\* A plausible slip: the end time is consulted before the duration.
cropArgsEndFirst(video, options) ==
  <<"-i", video, "-ss", String(options.start)>>
  \o (IF TruthyNum(options.end)
      THEN <<"-t", String(options.end[1] - options.start)>>
      ELSE IF TruthyNum(options.duration)
      THEN <<"-t", String(options.duration[1])>>
      ELSE <<>>)
  \o <<"-c", "copy">>
  \o <<"-y", options.output>>

cropArgs(video, options) ==
  <<"-i", video, "-ss", String(options.start)>>
  \o (IF TruthyNum(options.duration)
      THEN <<"-t", String(options.duration[1])>>
      ELSE IF TruthyNum(options.end)
      THEN <<"-t", String(options.end[1] - options.start)>>
      ELSE <<>>)
  \o <<"-c", "copy">>
  \o <<"-y", options.output>>

\* A plausible slip: the chain without its center branch.
textPositionNoCenter(position) ==
  IF position = Some("top-right") THEN "main_w-text_w-10:10"
  ELSE IF position = Some("bottom-left") THEN "10:main_h-text_h-10"
  ELSE IF position = Some("bottom-right")
  THEN "main_w-text_w-10:main_h-text_h-10"
  ELSE "10:10"

\* The anchor expression of a text watermark for options.position.
textPosition(position) ==
  IF position = Some("top-right") THEN "main_w-text_w-10:10"
  ELSE IF position = Some("bottom-left") THEN "10:main_h-text_h-10"
  ELSE IF position = Some("bottom-right")
  THEN "main_w-text_w-10:main_h-text_h-10"
  ELSE IF position = Some("center")
  THEN "(main_w-text_w)/2:(main_h-text_h)/2"
  ELSE "10:10"

\* The anchor expression of an image watermark for options.position.
imagePosition(position) ==
  IF position = Some("top-right") THEN "main_w-overlay_w-10:10"
  ELSE IF position = Some("bottom-left") THEN "10:main_h-overlay_h-10"
  ELSE IF position = Some("bottom-right")
  THEN "main_w-overlay_w-10:main_h-overlay_h-10"
  ELSE IF position = Some("center")
  THEN "(main_w-overlay_w)/2:(main_h-overlay_h)/2"
  ELSE "10:10"

\* The filter tokens of addWatermark: a drawtext filter, an overlay filter,
\* or nothing when neither branch of the if / else-if is taken.
watermarkFilter(options) ==
  IF options.type = "text" /\ TruthyStr(options.text)
  THEN LET fontSize == IF TruthyNum(options.fontSize)
                       THEN options.fontSize[1] ELSE 24
           color == IF TruthyStr(options.color)
                    THEN options.color[1] ELSE "white"
           opacity == IF TruthyNum(options.opacity)
                      THEN options.opacity[1] ELSE 1
       IN  <<"-vf",
             "drawtext=text='" \o options.text[1] \o "':fontsize="
               \o String(fontSize) \o ":fontcolor=" \o color \o "@"
               \o String(opacity) \o ":x=" \o textPosition(options.position)>>
  ELSE IF options.type = "image" /\ TruthyStr(options.image)
  THEN LET opacity == IF TruthyNum(options.opacity)
                      THEN options.opacity[1] ELSE 1
       IN  <<"-i", options.image[1], "-filter_complex",
             "[1:v]scale=iw*" \o String(opacity) \o ":ih*" \o String(opacity)
               \o "[overlay];[0:v][overlay]overlay="
               \o imagePosition(options.position)>>
  ELSE <<>>

\* A plausible slip: the output pushed before the filter tokens.
addWatermarkArgsOutputFirst(video, options) ==
  <<"-i", video>> \o <<"-y", options.output>> \o watermarkFilter(options)

addWatermarkArgs(video, options) ==
  <<"-i", video>> \o watermarkFilter(options) \o <<"-y", options.output>>

\* A plausible slip: the two aspect-preserving filters exchanged.
extractThumbnailArgsSwapped(video, options) ==
  <<"-i", video, "-ss", String(options.time), "-vframes", "1">>
  \o (IF TruthyNum(options.width) /\ TruthyNum(options.height)
      THEN <<"-s", String(options.width[1]) \o "x"
                     \o String(options.height[1])>>
      ELSE IF TruthyNum(options.width)
      THEN <<"-vf", "scale=-1:" \o String(options.width[1])>>
      ELSE IF TruthyNum(options.height)
      THEN <<"-vf", "scale=" \o String(options.height[1]) \o ":-1">>
      ELSE <<>>)
  \o <<"-y", options.output>>

extractThumbnailArgs(video, options) ==
  <<"-i", video, "-ss", String(options.time), "-vframes", "1">>
  \o (IF TruthyNum(options.width) /\ TruthyNum(options.height)
      THEN <<"-s", String(options.width[1]) \o "x"
                     \o String(options.height[1])>>
      ELSE IF TruthyNum(options.width)
      THEN <<"-vf", "scale=" \o String(options.width[1]) \o ":-1">>
      ELSE IF TruthyNum(options.height)
      THEN <<"-vf", "scale=-1:" \o String(options.height[1])>>
      ELSE <<>>)
  \o <<"-y", options.output>>

\* videos.map((v) => `file '${v}'`).join("\n")
RECURSIVE joinLines(_)
joinLines(lines) ==
  IF lines = <<>> THEN ""
  ELSE IF Len(lines) = 1 THEN lines[1]
  ELSE lines[1] \o "\n" \o joinLines(Tail(lines))

\* A plausible slip: every line terminated by a newline, the last included.
listContentTerminated(videos) ==
  joinLines([i \in 1..Len(videos) |-> "file '" \o videos[i] \o "'\n"])

listContent(videos) ==
  joinLines([i \in 1..Len(videos) |-> "file '" \o videos[i] \o "'"])

mergeArgs(listFile, options) ==
  <<"-f", "concat", "-safe", "0", "-i", listFile, "-c", "copy", "-y",
    options.output>>

getInfoArgs(videoPath) ==
  <<"-i", videoPath, "-hide_banner", "-f", "null", "-">>

(***************************************************************************)
(* Collaborators: the process runner and the file store.                   *)
(***************************************************************************)
\* The printable ASCII characters, code 32 first.  Code 96 (the backquote)
\* cannot be written in a string here: a blank holds its place, and no text
\* of the model contains it.
Ascii ==
  " !\"#$%&'()*+,-./0123456789:;<=>?@ABCDEFGHIJKLMNOPQRSTUVWXYZ[\\]^_ "
    \o "abcdefghijklmnopqrstuvwxyz{|}~"

\* The bytes the tool writes for a text of printable ASCII and newlines.
encodeChar(ch) ==
  IF ch = "\n" THEN 10
  ELSE 31 + CHOOSE i \in 1..Len(Ascii) : CharAt(Ascii, i) = ch
encode(text) == [i \in 1..Len(text) |-> encodeChar(CharAt(text, i))]

\* The diagnostic texts the tool is taken to write on stderr.
DiagnosticTexts ==
  {"", "Err", "Duration: 00:02:00.50",
   "Duration: 01:02:03.25, bitrate: 900 kb/s\n"
     \o "Stream #0:0: Video: h264, 640x480, 30 fps\n"
     \o "Stream #0:1: Audio: aac, 44100 Hz, 128 kb/s",
   "Stream #0:0(und): Video: h264 (avc1 / 0x31637661), 1280x720, 30 fps\n"
     \o "Stream #0:1: Audio: aac, 48000 Hz",
   "Stream #0:0: Video: vp9, 640x480\n"
     \o "Stream #0:1: Audio: opus, 96 kb/s"}

\* What cmd.output() gives: it throws, or it returns {success, stderr}.
StderrBytes == {encode(text) : text \in DiagnosticTexts}
RunnerResults ==
  {[thrown |-> TRUE, success |-> FALSE, stderr |-> <<>>]}
  \cup {[thrown |-> FALSE, success |-> ok, stderr |-> b] :
          ok \in BOOLEAN, b \in StderrBytes}

\* new TextDecoder().decode(stderr), byte by byte.
decodeByte(b) ==
  IF b = 10 THEN "\n"
  ELSE IF b \in 32..126 /\ b # 96 THEN CharAt(Ascii, b - 31)
  ELSE "?"
decode(bytes) == Concat([i \in 1..Len(bytes) |-> decodeByte(bytes[i])])

\* Math.random().toString(36).substring(7): a short base-36 string, empty
\* when the expansion has at most seven characters (0.5 gives "0.i").
RandomSuffixes == {"", "k3f9x"}

\* The name createTempFile gives the temp file.
tempFileName(dir, t, r) ==
  dir \o "/temp_" \o String(t) \o "_" \o r \o ".mp4"

\* makeTempDir() and makeTempFile({suffix}) of the runtime: a new name at
\* every call.
makeTempDir(n) == "/tmp/dir" \o String(n)
makeTempFile(n, suffix) == "/tmp/file" \o String(n) \o suffix

(***************************************************************************)
(* Regular expressions as output.match(re) applies them: the leftmost      *)
(* match, found by backtracking; a greedy repetition tries the longest run *)
(* first, a lazy one the shortest.  A pattern is a sequence of nodes.      *)
(***************************************************************************)
Min(S) == CHOOSE x \in S : \A y \in S : x <= y
Max(S) == CHOOSE x \in S : \A y \in S : x >= y

DigitChars == "0123456789"
Digits == {CharAt(DigitChars, i) : i \in 1..Len(DigitChars)}     \* \d
Spaces == {" ", "\t", "\n", "\r", "\f"}                            \* \s
LineEnds == {"\n", "\r"}

Lit(s) == [t |-> "lit", s |-> s]
\* between min and max (-1: unbounded) characters of a class
Rep(chars, negated, min, max, greedy) ==
  [t |-> "rep", chars |-> chars, negated |-> negated, min |-> min,
   max |-> max, greedy |-> greedy]
Cap(k, items) == [t |-> "cap", k |-> k, items |-> items]          \* ( )
Maybe(items) == [t |-> "opt", items |-> items]                    \* (?: )?
Alt(choices) == [t |-> "alt", choices |-> choices]                \* a|b
CapEnd(k, from) == [t |-> "end", k |-> k, from |-> from]

Some1(chars) == Rep(chars, FALSE, 1, -1, TRUE)                    \* [..]+
Exactly(chars, n) == Rep(chars, FALSE, n, n, TRUE)                \* [..]{n}
SpacesGreedy == Rep(Spaces, FALSE, 0, -1, TRUE)                   \* \s*
AnyLazy == Rep(LineEnds, TRUE, 0, -1, FALSE)                      \* .*?

\* two characters are the same, under the i flag up to letter case
SameChar(ci, a, b) == a = b \/ (ci /\ lowerChar(a) = lowerChar(b))
InClass(ci, node, ch) ==
  (\E m \in node.chars : SameChar(ci, m, ch)) # node.negated

NoMatch == [ok |-> FALSE, caps |-> <<>>]

\* Of the attempts <<rank, result>> that matched, the result of the one the
\* matcher reaches first: the lowest rank, or the highest.
Best(hits, highest) ==
  IF hits = {} THEN NoMatch
  ELSE (CHOOSE t \in hits :
          \A u \in hits : IF highest THEN t[1] >= u[1] ELSE t[1] <= u[1])[2]
FirstOk(tried, highest) ==
  CHOOSE r \in {Best(hits, highest) : hits \in {{t \in tried : t[2].ok}}} :
    TRUE

\* the length of the longest run of characters of the class from pos on, no
\* longer than the repetition allows
Longest(text, ci, node, pos) ==
  LET stops == {j \in pos..Len(text) : ~InClass(ci, node, CharAt(text, j))}
  IN  IF stops = {} THEN Len(text) - pos + 1 ELSE Min(stops) - pos
Most(node, longest) ==
  IF node.max >= 0 /\ node.max < longest THEN node.max ELSE longest

\* The pattern `stack` matched against text from position pos on, with the
\* groups caps captured so far.
RECURSIVE Match(_, _, _, _, _)
Match(text, ci, stack, pos, caps) ==
  IF Len(stack) = 0 THEN [ok |-> TRUE, caps |-> caps]
  ELSE
    LET node == Head(stack)
        rest == Tail(stack)
    IN  CASE node.t = "lit" ->
               IF /\ pos + Len(node.s) - 1 <= Len(text)
                  /\ \A j \in 1..Len(node.s) :
                       SameChar(ci, CharAt(text, pos + j - 1),
                                CharAt(node.s, j))
               THEN Match(text, ci, rest, pos + Len(node.s), caps)
               ELSE NoMatch
          [] node.t = "rep" ->
               FirstOk({<<k, Match(text, ci, rest, pos + k, caps)>> :
                          k \in node.min..Most(node,
                                               Longest(text, ci, node, pos))},
                       node.greedy)
          [] node.t = "opt" ->
               FirstOk({<<i, Match(text, ci,
                                   (IF i = 1 THEN node.items ELSE <<>>)
                                     \o rest, pos, caps)>> : i \in {1, 2}},
                       FALSE)
          [] node.t = "alt" ->
               FirstOk({<<i, Match(text, ci, node.choices[i] \o rest,
                                   pos, caps)>> :
                          i \in 1..Len(node.choices)},
                       FALSE)
          [] node.t = "cap" ->
               Match(text, ci,
                     node.items \o <<CapEnd(node.k, pos)>> \o rest, pos, caps)
          [] node.t = "end" ->
               Match(text, ci, rest, pos,
                     [caps EXCEPT ![node.k] = SubSeq(text, node.from, pos - 1)])

\* what match returns for a result: null (None), or the captured groups
Groups(r) == IF r.ok THEN Some(r.caps) ELSE None

\* text.match(re): the match from the leftmost position that has one
match(text, re) ==
  Groups(FirstOk({<<i, Match(text, re.ci, re.items, i,
                             [k \in 1..re.groups |-> ""])>> :
                    i \in 1..(Len(text) + 1)},
                 FALSE))

(***************************************************************************)
(* The patterns of getInfo.                                                *)
(***************************************************************************)
\* A plausible slip: the third group closed before the fraction,
\* /Duration: (\d{2}):(\d{2}):(\d{2})\.\d+/
durationReWholeSeconds ==
  [ci |-> FALSE, groups |-> 3,
   items |-> <<Lit("Duration: "), Cap(1, <<Exactly(Digits, 2)>>), Lit(":"),
               Cap(2, <<Exactly(Digits, 2)>>), Lit(":"),
               Cap(3, <<Exactly(Digits, 2)>>), Lit("."), Some1(Digits)>>]

\* /Duration: (\d{2}):(\d{2}):(\d{2}\.\d+)/
durationRe ==
  [ci |-> FALSE, groups |-> 3,
   items |-> <<Lit("Duration: "), Cap(1, <<Exactly(Digits, 2)>>), Lit(":"),
               Cap(2, <<Exactly(Digits, 2)>>), Lit(":"),
               Cap(3, <<Exactly(Digits, 2), Lit("."), Some1(Digits)>>)>>]
\* /Video:.*?(\d+)x(\d+).*?(\d+(?:\.\d+)?)\s*fps/
videoRe ==
  [ci |-> FALSE, groups |-> 3,
   items |-> <<Lit("Video:"), AnyLazy, Cap(1, <<Some1(Digits)>>), Lit("x"),
               Cap(2, <<Some1(Digits)>>), AnyLazy,
               Cap(3, <<Some1(Digits),
                        Maybe(<<Lit("."), Some1(Digits)>>)>>),
               SpacesGreedy, Lit("fps")>>]
\* /bitrate:\s*(\d+)\s*kb\/s/i
bitrateRe ==
  [ci |-> TRUE, groups |-> 1,
   items |-> <<Lit("bitrate:"), SpacesGreedy, Cap(1, <<Some1(Digits)>>),
               SpacesGreedy, Lit("kb/s")>>]
\* /Video:.*?([hx]264|hevc|h265|vp9|av1|vp8)/i
codecRe ==
  [ci |-> TRUE, groups |-> 1,
   items |-> <<Lit("Video:"), AnyLazy,
               Cap(1, <<Alt(<<(<<Exactly({"h", "x"}, 1), Lit("264")>>),
                              (<<Lit("hevc")>>), (<<Lit("h265")>>),
                              (<<Lit("vp9")>>), (<<Lit("av1")>>),
                              (<<Lit("vp8")>>)>>)>>)>>]
\* /Audio:.*?([aac|mp3|opus|vorbis]+)/i : the brackets make a character
\* class of the letters, the digit 3 and the bar
audioCodecRe ==
  [ci |-> TRUE, groups |-> 1,
   items |-> <<Lit("Audio:"), AnyLazy,
               Cap(1, <<Some1({"a", "c", "|", "m", "p", "3", "o", "u", "s",
                               "v", "r", "b", "i"})>>)>>]
\* /Audio:.*?(\d+)\s*kb\/s/i
audioBitrateRe ==
  [ci |-> TRUE, groups |-> 1,
   items |-> <<Lit("Audio:"), AnyLazy, Cap(1, <<Some1(Digits)>>),
               SpacesGreedy, Lit("kb/s")>>]
\* /Audio:.*?(\d+)\s*Hz/i
audioSampleRateRe ==
  [ci |-> TRUE, groups |-> 1,
   items |-> <<Lit("Audio:"), AnyLazy, Cap(1, <<Some1(Digits)>>),
               SpacesGreedy, Lit("Hz")>>]

(***************************************************************************)
(* Numbers.  parseInt gives an integer.  A number that may have a fraction *)
(* (parseFloat, and what is computed from it) is kept exactly, as the      *)
(* decimal n / 10^e with no trailing zero in the fraction.                 *)
(***************************************************************************)
digitValue(ch) == CHOOSE d \in 0..9 : CharAt(DigitChars, d + 1) = ch

\* parseInt(s, 10) of a string of digits
RECURSIVE parseInt(_)
parseInt(s) ==
  IF Len(s) = 0 THEN 0
  ELSE 10 * parseInt(SubSeq(s, 1, Len(s) - 1)) + digitValue(CharAt(s, Len(s)))

RECURSIVE Pow10(_)
Pow10(e) == IF e = 0 THEN 1 ELSE 10 * Pow10(e - 1)

RECURSIVE Decimal(_, _)
Decimal(n, e) ==
  IF e > 0 /\ n % 10 = 0 THEN Decimal(n \div 10, e - 1)
  ELSE [n |-> n, e |-> e]

Zero == Decimal(0, 0)

\* parseFloat(s) of digits, or digits "." digits
parseFloat(s) ==
  LET dots == {i \in 1..Len(s) : CharAt(s, i) = "."}
  IN  IF dots = {} THEN Decimal(parseInt(s), 0)
      ELSE LET whole == SubSeq(s, 1, Min(dots) - 1)
               fraction == SubSeq(s, Min(dots) + 1, Len(s))
           IN  Decimal(parseInt(whole \o fraction), Len(fraction))

\* k + d for an integer k and a decimal d
Plus(k, d) == Decimal(k * Pow10(d.e) + d.n, d.e)

\* A plausible slip: the video codec left empty when nothing matches.
codecOfNoDefault(codecMatch) ==
  IF codecMatch # None THEN toLowerCase(codecMatch[1][1]) ELSE ""

\* codecMatch ? codecMatch[1].toLowerCase() : "unknown"
codecOf(codecMatch) ==
  IF codecMatch # None THEN toLowerCase(codecMatch[1][1]) ELSE "unknown"

\* let duration = 0; if (durationMatch) { ... }
durationOf(durationMatch) ==
  IF durationMatch # None
  THEN LET hours == parseInt(durationMatch[1][1])
           minutes == parseInt(durationMatch[1][2])
           seconds == parseFloat(durationMatch[1][3])
       IN  Plus(hours * 3600 + minutes * 60, seconds)
  ELSE Zero
widthOf(videoMatch) ==
  IF videoMatch # None THEN parseInt(videoMatch[1][1]) ELSE 0
heightOf(videoMatch) ==
  IF videoMatch # None THEN parseInt(videoMatch[1][2]) ELSE 0
fpsOf(videoMatch) ==
  IF videoMatch # None THEN parseFloat(videoMatch[1][3]) ELSE Zero
bitrateOf(bitrateMatch) ==
  IF bitrateMatch # None THEN parseInt(bitrateMatch[1][1]) * 1000 ELSE 0
audioCodecOf(audioCodecMatch) ==
  IF audioCodecMatch # None THEN Some(toLowerCase(audioCodecMatch[1][1]))
  ELSE None
\* A plausible slip: the audio bitrate defaulted like the video bitrate.
audioBitrateOfOrZero(audioBitrateMatch) ==
  IF audioBitrateMatch # None
  THEN Some(parseInt(audioBitrateMatch[1][1]) * 1000) ELSE Some(0)

audioBitrateOf(audioBitrateMatch) ==
  IF audioBitrateMatch # None
  THEN Some(parseInt(audioBitrateMatch[1][1]) * 1000) ELSE None
audioSampleRateOf(audioSampleRateMatch) ==
  IF audioSampleRateMatch # None
  THEN Some(parseInt(audioSampleRateMatch[1][1])) ELSE None

\* The fields getInfo extracts from the diagnostic text.
parseOutput(output) ==
  [duration |-> durationOf(match(output, durationRe)),
   width |-> widthOf(match(output, videoRe)),
   height |-> heightOf(match(output, videoRe)),
   fps |-> fpsOf(match(output, videoRe)),
   bitrate |-> bitrateOf(match(output, bitrateRe)),
   codec |-> codecOf(match(output, codecRe)),
   audioCodec |-> audioCodecOf(match(output, audioCodecRe)),
   audioBitrate |-> audioBitrateOf(match(output, audioBitrateRe)),
   audioSampleRate |-> audioSampleRateOf(match(output, audioSampleRateRe))]

\* videoPath.split(".").pop()?.toLowerCase() || "mp4"
detectFormat(videoPath) ==
  LET dots == {i \in 1..Len(videoPath) : CharAt(videoPath, i) = "."}
      last == IF dots = {} THEN videoPath
              ELSE SubSeq(videoPath, Max(dots) + 1, Len(videoPath))
      ext == toLowerCase(last)
  IN  IF ext = "" THEN "mp4" ELSE ext

(***************************************************************************)
(* How a call settles.                                                     *)
(***************************************************************************)
Void == [type |-> "void"]
Pending == [kind |-> "pending", value |-> Void, error |-> ""]
Resolve(v) == [kind |-> "resolve", value |-> v, error |-> ""]
Reject(e) == [kind |-> "reject", value |-> Void, error |-> e]

\* `FFmpeg 处理失败: ${error}` (the message is transliterated)
FailureMessage(text) == "FFmpeg failed: " \o text

\* executeFFmpeg once cmd.output() has settled with r.
executeFFmpeg(r) ==
  IF r.thrown THEN Reject("spawn failed")
  ELSE IF ~r.success THEN Reject(FailureMessage(decode(r.stderr)))
  ELSE Resolve(Void)

\* parseOutput of the diagnostic texts of the model, computed once; the
\* runner of the model writes no other text.
ParsedTexts == [text \in DiagnosticTexts |-> parseOutput(text)]

\* The VideoInfo getInfo returns for the decoded stderr text, the path it
\* probed and the size it found.
VideoInfo(output, videoPath, size) ==
  ParsedTexts[output]
    @@ [type |-> "VideoInfo", format |-> detectFormat(videoPath),
        size |-> size]

\* A finally block without the inner try / catch: a failed removal would
\* replace the outcome of the try block.
finallyOutcomeUncaught(primary, removeFailed) ==
  IF removeFailed THEN Reject("remove failed") ELSE primary

\* The finally blocks of getInfo and merge: the removal sits in its own
\* try / catch, so the call settles as its try block did.
finallyOutcome(primary, removeFailed) == primary

\* A plausible slip: the removal at the end of the try block instead of in
\* a finally, so that it runs only when the try block succeeded.
getInfoLeaveTryOnSuccess(video, primary) ==
  IF video.kind = "buffer" /\ primary.kind = "resolve" THEN "remove"
  ELSE "done"

\* A plausible slip: the finally removes videoPath whatever the input was.
getInfoLeaveTryAlways(video, primary) == "remove"

\* Where getInfo goes on leaving its try block: the finally removes the
\* temp file of a buffer input and does nothing for a path input.
getInfoLeaveTry(video, primary) ==
  IF video.kind = "buffer" THEN "remove" ELSE "done"

(***************************************************************************)
(* Requests.                                                               *)
(***************************************************************************)
Videos == {"a.mp4"}
ProbePaths == {"a.mp4", "clip", "missing.mp4"}
Outputs == {"o.mp4", "a.mp4"}
Codecs ==
  {"h264", "h265", "hevc", "vp9", "av1", "vp8", "AV1", "H264", "copy",
   "constructor"}
Qualities == {"low", "medium", "high"}
Positions == {"top-left", "top-right", "bottom-left", "bottom-right", "center"}

ProbeInputs ==
  {[kind |-> "path", path |-> p, length |-> 0] : p \in ProbePaths}
  \cup {[kind |-> "buffer", path |-> "", length |-> n] : n \in Nums}

\* the probes ConcSpec runs together: a path and a buffer
ConcInputs == {v \in ProbeInputs : v.path = "a.mp4" \/ v.length = 1}

ConvertOptionsSet ==
  [format : Opt({"webm"}), codec : Opt(Codecs),
   resolution : Opt({"", "1280x720"}), fps : Opt(Nums), bitrate : Opt(Nums),
   quality : Opt(Qualities), output : Outputs]
CompressOptionsSet ==
  [bitrate : Opt(Nums), resolution : Opt({"", "1280x720"}),
   quality : Opt(Qualities), output : Outputs]
CropOptionsSet ==
  [start : Nums, duration : Opt(Nums), end : Opt(Nums), output : Outputs]
MergeOptionsSet == [output : Outputs]
WatermarkOptionsSet ==
  [type : {"text", "image"}, text : Opt({"", "hi"}),
   image : Opt({"", "w.png"}), position : Opt(Positions),
   fontSize : Opt(Nums), color : Opt({"red"}), opacity : Opt({0, 1}),
   output : Outputs]
ThumbnailOptionsSet ==
  [time : Nums, width : Opt(Nums), height : Opt(Nums), output : Outputs]
MergeInputs == UNION {[1..n -> {"a.mp4", "b.mp4"}] : n \in 0..MaxInputs}

(***************************************************************************)
(* State.                                                                  *)
(*   processor  the FFmpegProcessor's fields                               *)
(*   calls      per call: the operation, its request, where it is          *)
(*              suspended (pc), the vector it built, its temp path, the    *)
(*              writes and tool invocations it issued (writes, spawns),    *)
(*              runner's result, how its try block ended (primary) and how *)
(*              it settled (outcome)                                       *)
(*   fs         the files that exist: path -> who wrote it (0: before any  *)
(*              call), its size and, for a text file, its content          *)
(*   now        the last value Date.now() returned                         *)
(*   fresh      the number of names makeTempDir / makeTempFile gave out    *)
(*   defaultProcessor  the module's `let defaultProcessor`                 *)
(*   api        per call of a module-level function: the function, the     *)
(*              options createVideoProcessor received, where it is         *)
(*              suspended (pc), the availability checks and installation   *)
(*              attempts it ran, its last check, the processor it obtained *)
(*              (self), the default processors created before it began     *)
(*              (known) and how it settled when no method was invoked      *)
(*   made       the number of FFmpegProcessor objects createVideoProcessor *)
(*              constructed; the n-th one carries id n                     *)
(*   stored     the ids of the processors assigned to defaultProcessor     *)
(*   begun      the number of calls of module-level functions begun        *)
(*   failed     the number of creations of a processor that threw; a call  *)
(*              records in `after` how many had thrown when it began       *)
(***************************************************************************)
CallIds == 1..NumCalls

\* createVideoProcessor() as getDefaultProcessor calls it: options = {}
NoOptions == [ffmpegPath |-> None, autoInstall |-> None, tempDir |-> None]

IdleApi ==
  [fn |-> "none", pc |-> "idle", options |-> NoOptions, checks |-> 0,
   installs |-> 0, lastCheck |-> None, self |-> None, known |-> {},
   after |-> 0, outcome |-> Pending]

IdleCall ==
  [op |-> "none", pc |-> "idle", req |-> None, args |-> <<>>, path |-> "",
   created |-> FALSE, writes |-> 0, spawns |-> 0, ran |-> None, primary |-> Pending,
   outcome |-> Pending, removes |-> 0, removeFailed |-> FALSE,
   readOf |-> {}, removedOf |-> {}]

Init ==
  /\ processor \in [ffmpegCommand : {"ffmpeg"}, tempDir : Opt({"/t"})]
  /\ calls = [c \in CallIds |-> IdleCall]
  /\ fs = [p \in {"a.mp4", "b.mp4", "clip"} |->
             [writer |-> 0, size |-> 2, text |-> ""]]
  /\ now = 0
  /\ fresh = 0
  /\ defaultProcessor = None
  /\ api = [c \in CallIds |-> IdleApi]
  /\ made = 0
  /\ stored = {}
  /\ begun = 0
  /\ failed = 0

\* createCommand(this.ffmpegCommand, {args}) followed by `await cmd.output()`
Spawn(call, args) ==
  [call EXCEPT !.args = args, !.spawns = @ + 1, !.pc = "run"]

\* An operation that builds its vector and awaits executeFFmpeg(args): the
\* call as it stands at that await.
Started(op, video, options, args) ==
  Spawn([IdleCall EXCEPT !.op = op,
                         !.req = [video |-> video, options |-> options]],
        args)

convertOn(c, video, options) ==
  calls' = [calls EXCEPT ![c] =
    Started("convert", video, options, convertArgs(video, options))]

convert(c) ==
  /\ calls[c].pc = "idle"
  /\ \E video \in Videos, options \in ConvertOptionsSet :
       convertOn(c, video, options)
  /\ UNCHANGED <<processor, fs, now, fresh>>

compressOn(c, video, options) ==
  calls' = [calls EXCEPT ![c] =
    Started("compress", video, options, compressArgs(video, options))]

compress(c) ==
  /\ calls[c].pc = "idle"
  /\ \E video \in Videos, options \in CompressOptionsSet :
       compressOn(c, video, options)
  /\ UNCHANGED <<processor, fs, now, fresh>>

cropOn(c, video, options) ==
  calls' = [calls EXCEPT ![c] =
    Started("crop", video, options, cropArgs(video, options))]

crop(c) ==
  /\ calls[c].pc = "idle"
  /\ \E video \in Videos, options \in CropOptionsSet :
       cropOn(c, video, options)
  /\ UNCHANGED <<processor, fs, now, fresh>>

addWatermarkOn(c, video, options) ==
  calls' = [calls EXCEPT ![c] =
    Started("addWatermark", video, options, addWatermarkArgs(video, options))]

addWatermark(c) ==
  /\ calls[c].pc = "idle"
  /\ \E video \in Videos, options \in WatermarkOptionsSet :
       addWatermarkOn(c, video, options)
  /\ UNCHANGED <<processor, fs, now, fresh>>

extractThumbnailOn(c, video, options) ==
  calls' = [calls EXCEPT ![c] =
    Started("extractThumbnail", video, options,
            extractThumbnailArgs(video, options))]

extractThumbnail(c) ==
  /\ calls[c].pc = "idle"
  /\ \E video \in Videos, options \in ThumbnailOptionsSet :
       extractThumbnailOn(c, video, options)
  /\ UNCHANGED <<processor, fs, now, fresh>>

\* A call leaves its try block with result `primary` and goes on to `pc`:
\* the removal of its finally block, or settled when there is none.
LeaveTry(call, primary, pc) ==
  [call EXCEPT !.primary = primary, !.pc = pc,
               !.outcome = IF pc = "done" THEN primary ELSE @]

\* A call rejects outside any try block.
Throw(call, e) ==
  [call EXCEPT !.primary = Reject(e), !.outcome = Reject(e), !.pc = "done"]

\* merge up to `await makeTempFile({ suffix: ".txt" })`
mergeOn(c, videos, options) ==
  calls' = [calls EXCEPT ![c] =
    [IdleCall EXCEPT !.op = "merge",
                     !.req = [video |-> videos, options |-> options],
                     !.pc = "makeTempFile"]]

merge(c) ==
  /\ calls[c].pc = "idle"
  /\ \E videos \in MergeInputs, options \in MergeOptionsSet :
       mergeOn(c, videos, options)
  /\ UNCHANGED <<processor, fs, now, fresh>>

\* makeTempFile settles: the list file exists (empty) and merge goes on to
\* `await writeTextFile(listFile, listContent)`, still before its try block.
MakeTempFileReturns(c, ok) ==
  /\ calls[c].pc = "makeTempFile"
  /\ IF ok
     THEN LET listFile == makeTempFile(fresh, ".txt")
          IN  /\ fs' = (listFile :> [writer |-> c, size |-> 0, text |-> ""])
                      @@ fs
              /\ fresh' = fresh + 1
              /\ calls' = [calls EXCEPT ![c].path = listFile,
                                        ![c].created = TRUE,
                                        ![c].writes = @ + 1,
                                        ![c].pc = "writeTextFile"]
     ELSE /\ calls' = [calls EXCEPT ![c] = Throw(@, "makeTempFile failed")]
          /\ UNCHANGED <<fs, fresh>>
  /\ UNCHANGED <<processor, now>>

\* writeTextFile settles: on success merge enters its try block, builds the
\* vector and awaits executeFFmpeg; on failure the call rejects at once.
WriteTextFileReturns(c, ok) ==
  /\ calls[c].pc = "writeTextFile"
  /\ IF ok
     THEN /\ fs' = (calls[c].path :>
                      [writer |-> c,
                       size |-> Len(listContent(calls[c].req.video)),
                       text |-> listContent(calls[c].req.video)]) @@ fs
          /\ calls' = [calls EXCEPT ![c] =
               Spawn(@, mergeArgs(calls[c].path, calls[c].req.options))]
     ELSE /\ calls' = [calls EXCEPT ![c] = Throw(@, "writeTextFile failed")]
          /\ UNCHANGED fs
  /\ UNCHANGED <<processor, now, fresh>>

\* createTempFile from the dir on: the name from Date.now() and
\* Math.random(), then `await writeFile(tempFile, data)`.
NameTempFile(c, call, dir) ==
  \E t \in now..MaxTime, r \in RandomSuffixes :
    /\ now' = t
    /\ calls' = [calls EXCEPT ![c] =
         [call EXCEPT !.path = tempFileName(dir, t, r), !.writes = @ + 1,
                      !.pc = "writeFile"]]

\* getInfo up to its first await: the runner for a path input; for a buffer
\* input createTempFile, which awaits makeTempDir() when no tempDir is
\* configured.
getInfoOn(self, c, video) ==
  /\ calls[c].pc = "idle"
  /\ LET call == [IdleCall EXCEPT !.op = "getInfo",
                                  !.req = [video |-> video, options |-> None]]
     IN  IF video.kind = "path"
         THEN /\ calls' = [calls EXCEPT ![c] =
                   Spawn([call EXCEPT !.path = video.path],
                         getInfoArgs(video.path))]
              /\ UNCHANGED now
         ELSE IF TruthyStr(self.tempDir)
         THEN NameTempFile(c, call, self.tempDir[1])
         ELSE /\ calls' = [calls EXCEPT ![c] =
                   [call EXCEPT !.pc = "makeTempDir"]]
              /\ UNCHANGED now
  /\ UNCHANGED <<processor, fs, fresh>>

\* processor.getInfo(video) on the processor of the model
getInfo(c, video) == getInfoOn(processor, c, video)

MakeTempDirReturns(c, ok) ==
  /\ calls[c].pc = "makeTempDir"
  /\ IF ok
     THEN /\ NameTempFile(c, calls[c], makeTempDir(fresh))
          /\ fresh' = fresh + 1
     ELSE /\ calls' = [calls EXCEPT ![c] = Throw(@, "makeTempDir failed")]
          /\ UNCHANGED <<now, fresh>>
  /\ UNCHANGED <<processor, fs>>

\* writeFile settles: createTempFile returns the path, getInfo enters its
\* try block and awaits the runner.
WriteFileReturns(c, ok) ==
  /\ calls[c].pc = "writeFile"
  /\ IF ok
     THEN /\ fs' = (calls[c].path :>
                      [writer |-> c,
                       size |-> calls[c].req.video.length,
                       text |-> ""]) @@ fs
          /\ calls' = [calls EXCEPT ![c] =
               Spawn([@ EXCEPT !.created = TRUE], getInfoArgs(calls[c].path))]
     ELSE /\ calls' = [calls EXCEPT ![c] = Throw(@, "writeFile failed")]
          /\ UNCHANGED fs
  /\ UNCHANGED <<processor, now, fresh>>

\* Who wrote the file at path, if it exists.
OwnerOf(path) == IF path \in DOMAIN fs THEN {fs[path].writer} ELSE {}

\* A plausible slip: a run that failed is started once more.
RunnerReturnsRetrying(c, r) ==
  /\ calls[c].pc = "run"
  /\ LET call == [calls[c] EXCEPT !.ran = Some(r)]
         video == call.req.video
     IN  calls' = [calls EXCEPT ![c] =
           IF ~r.thrown /\ ~r.success /\ call.spawns < 2
           THEN Spawn(calls[c], call.args)
           ELSE IF call.op = "getInfo"
           THEN LET read == [call EXCEPT !.readOf = OwnerOf(call.path)]
                    thrown == Reject("spawn failed")
                    info == Resolve(VideoInfo(decode(r.stderr), call.path,
                                              video.length))
                IN  IF r.thrown
                    THEN LeaveTry(read, thrown, getInfoLeaveTry(video, thrown))
                    ELSE IF video.kind = "path"
                    THEN [read EXCEPT !.pc = "stat"]
                    ELSE LeaveTry(read, info, getInfoLeaveTry(video, info))
           ELSE IF call.op = "merge"
           THEN LeaveTry(call, executeFFmpeg(r), "remove")
           ELSE LeaveTry(call, executeFFmpeg(r), "done")]
  /\ UNCHANGED <<processor, fs, now, fresh>>

\* cmd.output() settles with r.
RunnerReturns(c, r) ==
  /\ calls[c].pc = "run"
  /\ LET call == [calls[c] EXCEPT !.ran = Some(r)]
         video == call.req.video
     IN  calls' = [calls EXCEPT ![c] =
           IF call.op = "getInfo"
           THEN LET read == [call EXCEPT !.readOf = OwnerOf(call.path)]
                    thrown == Reject("spawn failed")
                    info == Resolve(VideoInfo(decode(r.stderr), call.path,
                                              video.length))
                IN  IF r.thrown
                    THEN LeaveTry(read, thrown, getInfoLeaveTry(video, thrown))
                    ELSE IF video.kind = "path"
                    THEN [read EXCEPT !.pc = "stat"]
                    ELSE LeaveTry(read, info, getInfoLeaveTry(video, info))
           ELSE IF call.op = "merge"
           THEN LeaveTry(call, executeFFmpeg(r), "remove")
           ELSE LeaveTry(call, executeFFmpeg(r), "done")]
  /\ UNCHANGED <<processor, fs, now, fresh>>

\* `await stat(videoPath)` taken to answer size 0 for a file that is not there
StatReturnsOfNothing(c) ==
  /\ calls[c].pc = "stat"
  /\ LET call == calls[c]
         primary ==
           Resolve(VideoInfo(decode(call.ran[1].stderr), call.path,
                             IF call.path \in DOMAIN fs
                             THEN fs[call.path].size ELSE 0))
     IN  calls' = [calls EXCEPT ![c] =
           LeaveTry(call, primary, getInfoLeaveTry(call.req.video, primary))]
  /\ UNCHANGED <<processor, fs, now, fresh>>

\* `(await stat(videoPath)).size` of a path input settles.
StatReturns(c) ==
  /\ calls[c].pc = "stat"
  /\ LET call == calls[c]
         primary ==
           IF call.path \in DOMAIN fs
           THEN Resolve(VideoInfo(decode(call.ran[1].stderr), call.path,
                                  fs[call.path].size))
           ELSE Reject("NotFound")
     IN  calls' = [calls EXCEPT ![c] =
           LeaveTry(call, primary, getInfoLeaveTry(call.req.video, primary))]
  /\ UNCHANGED <<processor, fs, now, fresh>>

\* `await remove(path)` of a finally block settles: the file is gone, or
\* the removal threw (always so when there is no such file).
RemoveReturns(c, ok) ==
  /\ calls[c].pc = "remove"
  /\ LET call == calls[c]
         removed == ok /\ call.path \in DOMAIN fs
     IN  /\ fs' = IF removed
                  THEN [p \in DOMAIN fs \ {call.path} |-> fs[p]] ELSE fs
         /\ calls' = [calls EXCEPT ![c] =
              [call EXCEPT !.removes = @ + 1,
                           !.removeFailed = ~removed,
                           !.removedOf = IF removed THEN OwnerOf(call.path)
                                         ELSE {},
                           !.outcome = finallyOutcome(call.primary, ~removed),
                           !.pc = "done"]]
  /\ UNCHANGED <<processor, now, fresh>>

(***************************************************************************)
(* Spec: one call of any of the seven operations on a processor.           *)
(* ConcSpec: NumCalls probes in flight together on one processor.          *)
(***************************************************************************)
Steps(c) ==
  \/ \E ok \in BOOLEAN : MakeTempFileReturns(c, ok)
  \/ \E ok \in BOOLEAN : WriteTextFileReturns(c, ok)
  \/ \E ok \in BOOLEAN : MakeTempDirReturns(c, ok)
  \/ \E ok \in BOOLEAN : WriteFileReturns(c, ok)
  \/ \E r \in RunnerResults : RunnerReturns(c, r)
  \/ StatReturns(c)
  \/ \E ok \in BOOLEAN : RemoveReturns(c, ok)

(***************************************************************************)
(* The module-level functions: createVideoProcessor and the convenience    *)
(* functions over the shared default processor.                            *)
(***************************************************************************)
CreateOptionsSet ==
  [ffmpegPath : Opt({"", "nonexistent-ffmpeg"}), autoInstall : Opt(BOOLEAN),
   tempDir : Opt({"/t"})]
ConvenienceFns ==
  {"getVideoInfo", "convert", "compress", "crop", "merge", "addWatermark",
   "extractThumbnail"}
OSes == {"macos", "linux", "windows", "unknown"}
\* how `await cmd.output()` of a helper command settles
CommandOutputs ==
  {[thrown |-> TRUE, success |-> FALSE]}
  \cup [thrown : {FALSE}, success : BOOLEAN]

\* the arguments the convenience functions pass on in this model: a probe
\* of each path, and one request of each other operation
ApiProbes == {v \in ProbeInputs : v.kind = "path"}
ApiConvertOptions ==
  [format |-> None, codec |-> Some("h264"), resolution |-> None,
   fps |-> None, bitrate |-> None, quality |-> Some("high"),
   output |-> "o.mp4"]
ApiCompressOptions ==
  [bitrate |-> None, resolution |-> None, quality |-> None,
   output |-> "o.mp4"]
ApiCropOptions ==
  [start |-> 1, duration |-> None, end |-> Some(2), output |-> "o.mp4"]
ApiMergeOptions == [output |-> "o.mp4"]
ApiWatermarkOptions ==
  [type |-> "text", text |-> Some("hi"), image |-> None,
   position |-> Some("center"), fontSize |-> None, color |-> None,
   opacity |-> None, output |-> "o.mp4"]
ApiThumbnailOptions ==
  [time |-> 1, width |-> None, height |-> None, output |-> "o.mp4"]

\* const command = ffmpegPath || "ffmpeg"
commandOf(ffmpegPath) ==
  IF TruthyStr(ffmpegPath) THEN ffmpegPath[1] ELSE "ffmpeg"

\* checkFFmpeg once checkCmd.output() has settled with r
checkFFmpeg(r) == IF r.thrown THEN FALSE ELSE r.success

\* tryAutoInstall on the platform os, brew --version settling with brewCheck
\* and brew install ffmpeg with installCmd
tryAutoInstall(os, brewCheck, installCmd) ==
  IF os = "macos"
  THEN IF brewCheck.thrown THEN FALSE
       ELSE IF brewCheck.success
            THEN IF installCmd.thrown THEN FALSE ELSE installCmd.success
            ELSE FALSE
  ELSE FALSE

HintRule == "----\n"
\* getInstallHint on the platform os; aptCheck and yumCheck are how the two
\* package manager probes settle (the texts are transliterated and the
\* secondary lines of each platform's block left out)
getInstallHint(os, aptCheck, yumCheck) ==
  LET installUrl == IF os = "windows" THEN "https://ffmpeg.org/download.html"
                    ELSE ""
      installCommand ==
        CASE os = "macos" -> "brew install ffmpeg"
          [] os = "linux" ->
               IF ~aptCheck.thrown THEN "sudo apt-get install -y ffmpeg"
               ELSE IF ~yumCheck.thrown THEN "sudo yum install -y ffmpeg"
               ELSE "use the package manager of your distribution"
          [] os = "windows" -> "visit " \o installUrl
          [] OTHER -> "install it for your system"
      block ==
        CASE os = "macos" -> "auto:\n   " \o installCommand \o "\n\n"
          [] os = "linux" -> "command:\n   " \o installCommand \o "\n\n"
          [] os = "windows" -> "steps:\n   1. " \o installUrl \o "\n\n"
          [] OTHER -> "command:\n   " \o installCommand \o "\n\n"
  IN  "\n" \o HintRule \o "  FFmpeg is not installed or not found\n"
      \o HintRule \o "\n" \o block \o "run the program again.\n" \o HintRule

\* `FFmpeg 未找到。${hint}` (the message is transliterated)
NotFoundMessage(hint) == "FFmpeg not found." \o hint

\* const autoInstall = options.autoInstall !== false, without the test
autoInstallAlways(options) == TRUE

\* const autoInstall = options.autoInstall !== false
autoInstallOf(options) == options.autoInstall # Some(FALSE)

\* createVideoProcessor(options) up to `await checkCmd.output()` of the
\* first checkFFmpeg
createVideoProcessor(c, options) ==
  /\ api[c].pc = "idle"
  /\ calls[c].pc = "idle"
  /\ api' = [api EXCEPT ![c] =
       [IdleApi EXCEPT !.fn = "createVideoProcessor", !.options = options,
                       !.pc = "checkFFmpeg", !.checks = 1,
                       !.after = failed]]
  /\ begun' = begun + 1
  /\ UNCHANGED <<processor, calls, fs, now, fresh, defaultProcessor, made,
                 stored, failed>>

\* a convenience function up to its first suspension: getDefaultProcessor
\* returns the stored processor, or calls createVideoProcessor()
Convenience(c, fn) ==
  /\ api[c].pc = "idle"
  /\ calls[c].pc = "idle"
  /\ api' = [api EXCEPT ![c] =
       IF defaultProcessor # None
       THEN [IdleApi EXCEPT !.fn = fn, !.pc = "ready", !.known = stored,
                            !.after = failed, !.self = defaultProcessor]
       ELSE [IdleApi EXCEPT !.fn = fn, !.pc = "checkFFmpeg", !.known = stored,
                            !.after = failed, !.checks = 1]]
  /\ begun' = begun + 1
  /\ UNCHANGED <<processor, calls, fs, now, fresh, defaultProcessor, made,
                 stored, failed>>

\* ensureFFmpeg returned command: createVideoProcessor constructs the
\* processor; under getDefaultProcessor it is stored and returned
Created(c, a, command) ==
  LET p == [id |-> made + 1, ffmpegCommand |-> command,
            tempDir |-> a.options.tempDir]
  IN  /\ made' = made + 1
      /\ IF a.fn = "createVideoProcessor"
         THEN /\ api' = [api EXCEPT ![c] =
                   [a EXCEPT !.pc = "done", !.self = Some(p),
                             !.outcome = Resolve(p)]]
              /\ UNCHANGED <<defaultProcessor, stored>>
         ELSE /\ defaultProcessor' = Some(p)
              /\ stored' = stored \cup {p.id}
              /\ api' = [api EXCEPT ![c] =
                   [a EXCEPT !.pc = "ready", !.self = Some(p)]]

\* `await checkCmd.output()` of checkFFmpeg settles with r, and ensureFFmpeg
\* goes on to its next suspension
CheckReturns(c, r) ==
  /\ api[c].pc \in {"checkFFmpeg", "recheck"}
  /\ LET command == commandOf(api[c].options.ffmpegPath)
         isAvailable == checkFFmpeg(r)
         a == [api[c] EXCEPT !.lastCheck =
                 Some([command |-> command, ok |-> isAvailable])]
     IN  IF isAvailable
         THEN Created(c, a, command)
         ELSE /\ api' = [api EXCEPT ![c] =
                   IF a.pc = "checkFFmpeg" /\ autoInstallOf(a.options)
                   THEN [a EXCEPT !.pc = "tryAutoInstall",
                                  !.installs = @ + 1]
                   ELSE [a EXCEPT !.pc = "getInstallHint"]]
              /\ UNCHANGED <<defaultProcessor, made, stored>>
  /\ UNCHANGED <<processor, calls, fs, now, fresh, begun, failed>>

\* `await tryAutoInstall()` settles; getOS() is read at each use, and the
\* model lets its answer differ from one use to the next
TryAutoInstallReturns(c, os, brewCheck, installCmd) ==
  /\ api[c].pc = "tryAutoInstall"
  /\ api' = [api EXCEPT ![c] =
       IF tryAutoInstall(os, brewCheck, installCmd)
       THEN [@ EXCEPT !.pc = "recheck", !.checks = @ + 1]
       ELSE [@ EXCEPT !.pc = "getInstallHint"]]
  /\ UNCHANGED <<processor, calls, fs, now, fresh, defaultProcessor, made,
                 stored, begun, failed>>

\* ensureFFmpeg throws, and the failed creation is kept as the default
\* processor
HintReturnsCached(c, os, aptCheck, yumCheck) ==
  /\ api[c].pc = "getInstallHint"
  /\ api' = [api EXCEPT ![c] =
       [@ EXCEPT !.pc = "done",
                 !.outcome = Reject(NotFoundMessage(
                   getInstallHint(os, aptCheck, yumCheck)))]]
  /\ failed' = failed + 1
  /\ defaultProcessor' =
       IF api[c].fn = "createVideoProcessor" THEN defaultProcessor
       ELSE Some([id |-> 0, ffmpegCommand |-> "ffmpeg", tempDir |-> None])
  /\ UNCHANGED <<processor, calls, fs, now, fresh, made, stored, begun>>

\* `await getInstallHint()` settles and ensureFFmpeg throws
HintReturns(c, os, aptCheck, yumCheck) ==
  /\ api[c].pc = "getInstallHint"
  /\ api' = [api EXCEPT ![c] =
       [@ EXCEPT !.pc = "done",
                 !.outcome = Reject(NotFoundMessage(
                   getInstallHint(os, aptCheck, yumCheck)))]]
  /\ failed' = failed + 1
  /\ UNCHANGED <<processor, calls, fs, now, fresh, defaultProcessor, made,
                 stored, begun>>

\* `return processor.<method>(...)` after `await getDefaultProcessor()`
Invoke(c) ==
  /\ api[c].pc = "ready"
  /\ LET self == api[c].self[1]
         fn == api[c].fn
     IN  \/ /\ fn = "getVideoInfo"
            /\ \E video \in ApiProbes : getInfoOn(self, c, video)
         \/ /\ fn = "convert"
            /\ convertOn(c, "a.mp4", ApiConvertOptions)
            /\ UNCHANGED <<processor, fs, now, fresh>>
         \/ /\ fn = "compress"
            /\ compressOn(c, "a.mp4", ApiCompressOptions)
            /\ UNCHANGED <<processor, fs, now, fresh>>
         \/ /\ fn = "crop"
            /\ cropOn(c, "a.mp4", ApiCropOptions)
            /\ UNCHANGED <<processor, fs, now, fresh>>
         \/ /\ fn = "merge"
            /\ mergeOn(c, <<"a.mp4", "b.mp4">>, ApiMergeOptions)
            /\ UNCHANGED <<processor, fs, now, fresh>>
         \/ /\ fn = "addWatermark"
            /\ addWatermarkOn(c, "a.mp4", ApiWatermarkOptions)
            /\ UNCHANGED <<processor, fs, now, fresh>>
         \/ /\ fn = "extractThumbnail"
            /\ extractThumbnailOn(c, "a.mp4", ApiThumbnailOptions)
            /\ UNCHANGED <<processor, fs, now, fresh>>
  /\ api' = [api EXCEPT ![c].pc = "invoked"]
  /\ UNCHANGED <<defaultProcessor, made, stored, begun, failed>>

\* the steps of a module-level call after it began
ApiSteps(c) ==
  \/ \E r \in CommandOutputs : CheckReturns(c, r)
  \/ \E os \in OSes, brewCheck, installCmd \in CommandOutputs :
       TryAutoInstallReturns(c, os, brewCheck, installCmd)
  \/ \E os \in OSes, aptCheck, yumCheck \in CommandOutputs :
       HintReturns(c, os, aptCheck, yumCheck)
  \/ Invoke(c)

Next ==
  \E c \in {1} :
    \/ /\ api[c].pc = "idle"
       /\ \/ \E video \in ProbeInputs : getInfo(c, video)
          \/ convert(c)
          \/ compress(c)
          \/ crop(c)
          \/ merge(c)
          \/ addWatermark(c)
          \/ extractThumbnail(c)
       /\ UNCHANGED moduleVars
    \/ Steps(c) /\ UNCHANGED moduleVars
    \/ \E options \in CreateOptionsSet : createVideoProcessor(c, options)
    \/ \E fn \in ConvenienceFns : Convenience(c, fn)
    \/ ApiSteps(c)

Spec == Init /\ [][Next]_vars

\* the runner results of ConcSpec: those with a short diagnostic text
ConcRunnerResults == {r \in RunnerResults : Len(r.stderr) <= 3}

ConcNext ==
  \E c \in CallIds :
    /\ \/ \E video \in ConcInputs : getInfo(c, video)
       \/ \E ok \in BOOLEAN : MakeTempDirReturns(c, ok)
       \/ \E ok \in BOOLEAN : WriteFileReturns(c, ok)
       \/ \E r \in ConcRunnerResults : RunnerReturns(c, r)
       \/ StatReturns(c)
       \/ \E ok \in BOOLEAN : RemoveReturns(c, ok)
    /\ UNCHANGED moduleVars

ConcSpec == Init /\ [][ConcNext]_vars

\* the call of a module-level function has settled
ApiSettled(c) ==
  \/ api[c].pc = "done"
  \/ api[c].pc = "invoked" /\ calls[c].pc = "done"

\* the caller has received the result of call c and goes on to another call
NextCall(c) ==
  /\ ApiSettled(c)
  /\ begun < NumApiCalls
  /\ api' = [api EXCEPT ![c] = IdleApi]
  /\ calls' = [calls EXCEPT ![c] = IdleCall]
  /\ UNCHANGED <<processor, fs, now, fresh, defaultProcessor, made, stored,
                 begun, failed>>

\* the runner results of ApiSpec: the tool could not be started, it
\* succeeded, it failed
ApiRunnerResults ==
  {r \in RunnerResults :
     r.stderr = encode(IF ~r.thrown /\ ~r.success THEN "Err" ELSE "")}

\* the platform ApiSpec runs on: the one where tryAutoInstall can install
ApiOSes == {"macos"}

\* ApiSpec: NumApiCalls calls of the convenience functions, NumCalls of them
\* in flight together.  Of the calls in flight the lower-numbered began
\* first.
ApiNext ==
  \E c \in CallIds :
    \/ /\ begun < NumApiCalls
       /\ IF c = 1 THEN TRUE ELSE api[c - 1].pc # "idle"
       /\ \E fn \in ConvenienceFns : Convenience(c, fn)
    \/ \E r \in CommandOutputs : CheckReturns(c, r)
    \/ \E os \in ApiOSes, brewCheck, installCmd \in CommandOutputs :
         TryAutoInstallReturns(c, os, brewCheck, installCmd)
    \/ \E os \in ApiOSes, aptCheck, yumCheck \in CommandOutputs :
         HintReturns(c, os, aptCheck, yumCheck)
    \/ Invoke(c)
    \/ NextCall(c)
    \/ /\ \/ \E ok \in BOOLEAN : MakeTempFileReturns(c, ok)
          \/ \E ok \in BOOLEAN : WriteTextFileReturns(c, ok)
          \/ \E r \in ApiRunnerResults : RunnerReturns(c, r)
          \/ StatReturns(c)
          \/ \E ok \in BOOLEAN : RemoveReturns(c, ok)
       /\ UNCHANGED moduleVars

\* ApiSpec starts from the state in which the module was loaded; the
\* processor of direct calls plays no part in it
ApiInit == Init /\ processor.tempDir = None

ApiSpec == ApiInit /\ [][ApiNext]_vars

\* SeqSpec: NumApiCalls calls of the convenience functions, each begun after
\* the one before it has settled
SeqNext ==
  \E c \in {1} :
    \/ /\ begun < NumApiCalls
       /\ \E fn \in ConvenienceFns : Convenience(c, fn)
    \/ \E r \in CommandOutputs : CheckReturns(c, r)
    \/ \E os \in ApiOSes, brewCheck, installCmd \in CommandOutputs :
         TryAutoInstallReturns(c, os, brewCheck, installCmd)
    \/ \E os \in ApiOSes, aptCheck, yumCheck \in CommandOutputs :
         HintReturns(c, os, aptCheck, yumCheck)
    \/ Invoke(c)
    \/ NextCall(c)
    \/ /\ \/ \E ok \in BOOLEAN : MakeTempFileReturns(c, ok)
          \/ \E ok \in BOOLEAN : WriteTextFileReturns(c, ok)
          \/ \E r \in ApiRunnerResults : RunnerReturns(c, r)
          \/ StatReturns(c)
          \/ \E ok \in BOOLEAN : RemoveReturns(c, ok)
       /\ UNCHANGED moduleVars

SeqSpec == ApiInit /\ [][SeqNext]_vars

(***************************************************************************)
(* Properties.                                                             *)
(***************************************************************************)
Settled(c) == calls[c].pc = "done"
IsProbeOfBuffer(c) ==
  calls[c].op = "getInfo" /\ calls[c].req.video.kind = "buffer"
\* the runner returned and reported success = false
RunnerFailed(c) ==
  /\ calls[c].ran # None
  /\ ~calls[c].ran[1].thrown
  /\ ~calls[c].ran[1].success
InvalidOptionsError == Reject("InvalidOptionsError")
\* the file this call wrote is still at the call's temp path
OwnFileRemains(c) ==
  calls[c].path \in DOMAIN fs /\ fs[calls[c].path].writer = c

\* C1: whatever the operation, probe included, when the runner reports
\* success = false the call rejects with an error carrying the decoded
\* stderr text, and never resolves.
C1_RunnerFailureRejects ==
  \A c \in CallIds :
    Settled(c) /\ RunnerFailed(c) =>
      calls[c].outcome = Reject(FailureMessage(decode(calls[c].ran[1].stderr)))

\* C2 (as amended): a probe of a buffer that has written its temp file
\* settles only after one attempt to remove that file, on every exit path,
\* and unless that removal itself failed no file of the call remains.
C2_TempFileRemovalAttempted ==
  \A c \in CallIds :
    IsProbeOfBuffer(c) /\ calls[c].created /\ Settled(c) =>
      /\ calls[c].removes = 1
      /\ ~calls[c].removeFailed => ~OwnFileRemains(c)

\* C2 (as stated): ... so no temp file created by the call remains after it
\* completes.
C2_NoTempFileRemains ==
  \A c \in CallIds :
    IsProbeOfBuffer(c) /\ calls[c].created /\ Settled(c) =>
      /\ calls[c].removes = 1
      /\ ~OwnFileRemains(c)

\* C2 witness: a probe of a buffer whose process invocation threw has
\* settled after removing its temp file.
C2_Witness ==
  \E c \in CallIds :
    /\ IsProbeOfBuffer(c) /\ calls[c].created /\ Settled(c)
    /\ calls[c].ran # None /\ calls[c].ran[1].thrown
    /\ calls[c].removes = 1 /\ ~calls[c].removeFailed
    /\ ~OwnFileRemains(c)

\* C3: a merge that has created its list file settles only after an attempt
\* to remove it, on every exit path: success, failure while writing the
\* list content, FFmpeg failure.
C3_ListFileRemovalAttempted ==
  \A c \in CallIds :
    calls[c].op = "merge" /\ calls[c].created /\ Settled(c) =>
      calls[c].removes >= 1

\* C4: a failed temp-file removal never changes how the call settles: it
\* settles as its try block ended, resolving with the same value or
\* rejecting with the primary error (the probe of a buffer, and merge).
C4_CleanupFailureKeepsOutcome ==
  \A c \in CallIds :
    Settled(c) /\ calls[c].removes > 0 /\ calls[c].removeFailed =>
      /\ calls[c].outcome = calls[c].primary
      /\ calls[c].op = "merge" =>
           calls[c].outcome = executeFFmpeg(calls[c].ran[1])
      /\ calls[c].op = "getInfo" /\ ~calls[c].ran[1].thrown =>
           calls[c].outcome =
             Resolve(VideoInfo(decode(calls[c].ran[1].stderr), calls[c].path,
                               calls[c].req.video.length))

\* C4 witness: a merge whose FFmpeg run failed and whose list-file removal
\* failed too has settled, with the FFmpeg error.
C4_Witness ==
  \E c \in CallIds :
    /\ calls[c].op = "merge" /\ Settled(c) /\ calls[c].removeFailed
    /\ RunnerFailed(c)
    /\ calls[c].outcome.kind = "reject"

\* a probe of a buffer that holds a temp path: from the naming of the file
\* to the settling of the call
InFlightWithTempFile(c) ==
  IsProbeOfBuffer(c) /\ calls[c].pc \in {"writeFile", "run", "remove"}

\* C5: two probes of buffers in flight together have distinct temp paths,
\* also with a shared tempDir in the same millisecond, and no call reads or
\* removes a temp file another call wrote.
C5_DistinctTempPaths ==
  /\ \A c1, c2 \in CallIds :
       c1 # c2 /\ InFlightWithTempFile(c1) /\ InFlightWithTempFile(c2) =>
         calls[c1].path # calls[c2].path
  /\ \A c \in CallIds :
       IsProbeOfBuffer(c) =>
         calls[c].readOf \subseteq {c} /\ calls[c].removedOf \subseteq {c}

\* C6: a crop request with neither duration nor end, or with end <= start,
\* fails with an invalid-options error before any process is spawned: once
\* invoked it has settled with that error and has spawned nothing.
C6_CropRejectedBeforeSpawn ==
  \A c \in CallIds :
    LET o == calls[c].req.options
    IN  /\ calls[c].op = "crop"
        /\ \/ o.duration = None /\ o.end = None
           \/ o.end # None /\ o.end[1] <= o.start
        => /\ calls[c].spawns = 0
           /\ Settled(c)
           /\ calls[c].outcome = InvalidOptionsError

\* C7: a merge request with fewer than two inputs fails with an
\* invalid-options error; no list file is created, no process is spawned:
\* once invoked it has settled with that error, without a list file.
C7_MergeRejectedBeforeListFile ==
  \A c \in CallIds :
    calls[c].op = "merge" /\ Len(calls[c].req.video) < 2 =>
      /\ ~calls[c].created
      /\ calls[c].spawns = 0
      /\ Settled(c)
      /\ calls[c].outcome = InvalidOptionsError

\* C8: a watermark request of type text without text, or of type image
\* without image, fails with an invalid-options error and never runs the
\* external tool: once invoked it has settled with that error and has
\* spawned nothing.
C8_WatermarkRejectedBeforeSpawn ==
  \A c \in CallIds :
    LET o == calls[c].req.options
    IN  /\ calls[c].op = "addWatermark"
        /\ \/ o.type = "text" /\ o.text = None
           \/ o.type = "image" /\ o.image = None
        => /\ calls[c].spawns = 0
           /\ Settled(c)
           /\ calls[c].outcome = InvalidOptionsError

\* C9: a convert request with codec av1 and no bitrate gives a vector that
\* holds the pair -crf 30 and no -b:v token, whatever the quality, the
\* resolution and the fps.
C9_Av1ConstantQuality ==
  \A c \in CallIds :
    LET o == calls[c].req.options
    IN  /\ calls[c].op = "convert"
        /\ o.codec \in {Some("av1"), Some("AV1")}
        /\ o.bitrate = None
        => /\ HasPair(calls[c].args, "-crf", "30")
           /\ "-b:v" \notin Tokens(calls[c].args)

\* C9 witness: such a request with an explicit quality, resolution and fps
\* has been handed to the runner.
C9_Witness ==
  \E c \in CallIds :
    LET o == calls[c].req.options
    IN  /\ calls[c].op = "convert" /\ calls[c].spawns = 1
        /\ o.codec = Some("av1") /\ o.bitrate = None
        /\ o.quality = Some("high")
        /\ o.resolution = Some("1280x720") /\ o.fps = Some(MaxNum)

\* C10 (as amended): with a non-zero duration the vector is the one with
\* -t duration, in which end does not occur; with duration absent or 0 and
\* a non-zero end, -t is end - start.
C10_CropDurationFirst ==
  \A c \in CallIds :
    LET o == calls[c].req.options
        v == calls[c].req.video
        withT(t) == <<"-i", v, "-ss", String(o.start), "-t", t,
                      "-c", "copy", "-y", o.output>>
    IN  calls[c].op = "crop" =>
          /\ TruthyNum(o.duration) =>
               calls[c].args = withT(String(o.duration[1]))
          /\ ~TruthyNum(o.duration) /\ TruthyNum(o.end) =>
               calls[c].args = withT(String(o.end[1] - o.start))

\* C10 (as stated): whenever duration and end are both supplied -t is the
\* duration, and when only end is supplied -t is end - start.
C10_CropSuppliedDurationFirst ==
  \A c \in CallIds :
    LET o == calls[c].req.options
    IN  calls[c].op = "crop" =>
          /\ o.duration # None /\ o.end # None =>
               ValuesOf(calls[c].args, "-t") = {String(o.duration[1])}
          /\ o.duration = None /\ o.end # None =>
               ValuesOf(calls[c].args, "-t") = {String(o.end[1] - o.start)}

\* C10 witness: a crop with start 0, duration 1 and end 2 has been handed
\* to the runner with -t 1.
C10_Witness ==
  \E c \in CallIds :
    LET o == calls[c].req.options
    IN  /\ calls[c].op = "crop" /\ calls[c].spawns = 1
        /\ o.start = 0 /\ o.duration = Some(1) /\ o.end = Some(2)
        /\ HasPair(calls[c].args, "-t", "1")

\* the line of the list file for one input path
ListLine(path) == "file '" \o path \o "'"
\* the first n lines, each but the first preceded by one newline
RECURSIVE ListLines(_, _)
ListLines(videos, n) ==
  IF n = 0 THEN ""
  ELSE IF n = 1 THEN ListLine(videos[1])
  ELSE ListLines(videos, n - 1) \o "\n" \o ListLine(videos[n])

\* C11: once merge has written its list file, the file holds exactly one
\* line file '<path>' per input, in the order supplied, joined by single
\* newlines with nothing after the last line, and the vector handed to the
\* runner names that list file in concat mode with stream copy.
C11_MergeListFile ==
  \A c \in CallIds :
    calls[c].op = "merge" /\ calls[c].pc = "run" =>
      /\ calls[c].path \in DOMAIN fs
      /\ fs[calls[c].path].text =
           ListLines(calls[c].req.video, Len(calls[c].req.video))
      /\ calls[c].args =
           <<"-f", "concat", "-safe", "0", "-i", calls[c].path,
             "-c", "copy", "-y", calls[c].req.options.output>>

\* C11 witness: a merge of b.mp4, a.mp4, b.mp4 has written its list file
\* and awaits the runner.
C11_Witness ==
  \E c \in CallIds :
    /\ calls[c].op = "merge" /\ calls[c].pc = "run"
    /\ calls[c].req.video = <<"b.mp4", "a.mp4", "b.mp4">>
    /\ fs[calls[c].path].text = "file 'b.mp4'\nfile 'a.mp4'\nfile 'b.mp4'"

\* the six operations that write an output file
MutatingOps ==
  {"convert", "compress", "crop", "merge", "addWatermark", "extractThumbnail"}
\* the options of the vectors that take the next token as their value, and
\* the one that takes none
ValueFlags ==
  {"-i", "-c:v", "-cpu-used", "-crf", "-s", "-r", "-b:v", "-preset", "-c:a",
   "-ss", "-t", "-c", "-vf", "-filter_complex", "-f", "-safe", "-vframes"}
Switches == {"-y"}
\* the places of a vector FFmpeg reads as an output: a token that is not an
\* option and is not the value of the option before it
OutputPositions(args) ==
  {i \in 1..Len(args) :
     /\ args[i] \notin ValueFlags \cup Switches
     /\ (i = 1 \/ args[i - 1] \notin ValueFlags)}

\* C12: the vector a mutating operation hands to the runner ends with -y
\* and the output path, -y occurs only there, and the last place is the
\* only one FFmpeg reads as an output.
C12_OutputLast ==
  \A c \in CallIds :
    LET args == calls[c].args
        n == Len(args)
    IN  calls[c].op \in MutatingOps /\ calls[c].spawns > 0 =>
          /\ n >= 2
          /\ args[n - 1] = "-y"
          /\ args[n] = calls[c].req.options.output
          /\ {i \in 1..n : args[i] = "-y"} = {n - 1}
          /\ OutputPositions(args) = {n}

\* C12 witness: an image watermark whose output path is also its input
\* path has been handed to the runner.
C12_Witness ==
  \E c \in CallIds :
    LET o == calls[c].req.options
    IN  /\ calls[c].op = "addWatermark" /\ calls[c].spawns = 1
        /\ o.type = "image" /\ o.image = Some("w.png")
        /\ o.output = calls[c].req.video
        /\ calls[c].args[Len(calls[c].args)] = o.output

\* the runner returned and reported success
RunnerSucceeded(c) ==
  /\ calls[c].ran # None
  /\ ~calls[c].ran[1].thrown
  /\ calls[c].ran[1].success

\* C13 (as amended): the thumbnail vector seeks to time and takes one
\* frame; with a non-zero width and a non-zero height it forces the size
\* WxH, with only a non-zero width it ends in -vf scale=W:-1 -y output,
\* with only a non-zero height in -vf scale=-1:H -y output; on runner
\* success the call resolves with no value.
C13_ThumbnailVector ==
  \A c \in CallIds :
    LET o == calls[c].req.options
        head == <<"-i", calls[c].req.video, "-ss", String(o.time),
                  "-vframes", "1">>
        tail == <<"-y", o.output>>
    IN  calls[c].op = "extractThumbnail" =>
          /\ SubSeq(calls[c].args, 1, 6) = head
          /\ TruthyNum(o.width) /\ TruthyNum(o.height) =>
               calls[c].args =
                 head \o <<"-s", String(o.width[1]) \o "x"
                                  \o String(o.height[1])>> \o tail
          /\ TruthyNum(o.width) /\ ~TruthyNum(o.height) =>
               calls[c].args =
                 head \o <<"-vf", "scale=" \o String(o.width[1]) \o ":-1">>
                      \o tail
          /\ ~TruthyNum(o.width) /\ TruthyNum(o.height) =>
               calls[c].args =
                 head \o <<"-vf", "scale=-1:" \o String(o.height[1])>>
                      \o tail
          /\ Settled(c) /\ RunnerSucceeded(c) =>
               calls[c].outcome = Resolve(Void)

\* C13 (as stated): with both width and height supplied the size is forced
\* to WxH, with only width supplied the vector ends in -vf scale=W:-1 -y
\* output, with only height supplied in -vf scale=-1:H -y output.
C13_ThumbnailSuppliedSize ==
  \A c \in CallIds :
    LET o == calls[c].req.options
        args == calls[c].args
        n == Len(args)
    IN  calls[c].op = "extractThumbnail" =>
          /\ o.width # None /\ o.height # None =>
               HasPair(args, "-s", String(o.width[1]) \o "x"
                                     \o String(o.height[1]))
          /\ o.width # None /\ o.height = None =>
               SubSeq(args, n - 3, n) =
                 <<"-vf", "scale=" \o String(o.width[1]) \o ":-1",
                   "-y", o.output>>
          /\ o.width = None /\ o.height # None =>
               SubSeq(args, n - 3, n) =
                 <<"-vf", "scale=-1:" \o String(o.height[1]),
                   "-y", o.output>>

\* C13 witness: a thumbnail at time 1 with width 2 and no height has
\* resolved after the runner reported success.
C13_Witness ==
  \E c \in CallIds :
    LET o == calls[c].req.options
    IN  /\ calls[c].op = "extractThumbnail" /\ Settled(c)
        /\ RunnerSucceeded(c)
        /\ o.time = 1 /\ o.width = Some(2) /\ o.height = None
        /\ HasPair(calls[c].args, "-vf", "scale=2:-1")
        /\ calls[c].outcome = Resolve(Void)

\* addWatermark took its text branch / its image branch
TextBranch(o) == o.type = "text" /\ TruthyStr(o.text)
ImageBranch(o) == o.type = "image" /\ TruthyStr(o.image)

\* C14: in both branches of addWatermark the filter handed to the runner
\* ends with the anchor expression of the requested position; the five
\* positions give five pairwise distinct non-empty expressions, an absent
\* position gives the top-left one, and the center one is built from the
\* canvas and overlay dimensions.
C14_WatermarkAnchors ==
  \A c \in CallIds :
    LET o == calls[c].req.options
        args == calls[c].args
        anchor(p) == IF o.type = "text" THEN textPosition(p)
                     ELSE imagePosition(p)
        w == IF o.type = "text" THEN "text_w" ELSE "overlay_w"
        h == IF o.type = "text" THEN "text_h" ELSE "overlay_h"
        scale == IF TruthyNum(o.opacity) THEN String(o.opacity[1]) ELSE "1"
    IN  calls[c].op = "addWatermark" /\ (TextBranch(o) \/ ImageBranch(o)) =>
          /\ TextBranch(o) =>
               \E prefix \in
                     {"drawtext=text='" \o o.text[1] \o "':fontsize=" \o fs_
                        \o ":fontcolor=" \o col \o "@" \o scale \o ":x=" :
                      fs_ \in {String(n) : n \in Nums \cup {24}},
                      col \in {"white", "red"}} :
                 args[4] = prefix \o anchor(o.position)
          /\ ImageBranch(o) =>
               args[6] = "[1:v]scale=iw*" \o scale \o ":ih*" \o scale
                           \o "[overlay];[0:v][overlay]overlay="
                           \o anchor(o.position)
          /\ \A p, q \in Positions :
               p # q => anchor(Some(p)) # anchor(Some(q))
          /\ \A p \in Positions : anchor(Some(p)) # ""
          /\ anchor(None) = anchor(Some("top-left"))
          /\ anchor(Some("center")) =
               "(main_w-" \o w \o ")/2:(main_h-" \o h \o ")/2"

\* C14 witness: a text watermark anchored at the center, with the default
\* font size, colour and opacity, has been handed to the runner.
C14_Witness ==
  \E c \in CallIds :
    LET o == calls[c].req.options
    IN  /\ calls[c].op = "addWatermark" /\ calls[c].spawns = 1
        /\ TextBranch(o) /\ o.position = Some("center")
        /\ o.fontSize = None /\ o.color = None /\ o.opacity = None
        /\ calls[c].args[4] =
             "drawtext=text='hi':fontsize=24:fontcolor=white@1:x="
               \o "(main_w-text_w)/2:(main_h-text_h)/2"

\* a probe has resolved: its VideoInfo, and the text it was parsed from
ProbeResolved(c) ==
  calls[c].op = "getInfo" /\ Settled(c) /\ calls[c].outcome.kind = "resolve"
InfoOf(c) == calls[c].outcome.value
OutputOf(c) == decode(calls[c].ran[1].stderr)

\* text holds, from position i on, the word (letter case ignored or not)
HoldsAt(text, i, word, anyCase) ==
  /\ i + Len(word) - 1 <= Len(text)
  /\ LET part == SubSeq(text, i, i + Len(word) - 1)
     IN  IF anyCase THEN toLowerCase(part) = toLowerCase(word)
         ELSE part = word
IsDigitAt(text, i) == i <= Len(text) /\ CharAt(text, i) \in Digits
\* text holds no video-stream banner
NoVideoBanner(text) ==
  \A i \in 1..Len(text) : ~HoldsAt(text, i, "video:", TRUE)
\* text holds Duration: HH:MM:SS.f... from position i on
DurationAt(text, i) ==
  /\ HoldsAt(text, i, "Duration: ", FALSE)
  /\ \A j \in {10, 11, 13, 14, 16, 17, 19} : IsDigitAt(text, i + j)
  /\ HoldsAt(text, i + 12, ":", FALSE)
  /\ HoldsAt(text, i + 15, ":", FALSE)
  /\ HoldsAt(text, i + 18, ".", FALSE)
DurationPlaces(text) == {i \in 1..Len(text) : DurationAt(text, i)}
\* the value of the two digits of text at i and i + 1
TwoDigits(text, i) ==
  10 * digitValue(CharAt(text, i)) + digitValue(CharAt(text, i + 1))

\* C15 (as amended): a probe that resolved from a text without a video
\* banner reports width 0, height 0, fps 0 and codec unknown, and duration
\* 0 when the text holds no duration either; whatever the text, a probe of
\* a buffer whose runner returned resolves.
C15_NoBannerDefaults ==
  \A c \in CallIds :
    /\ ProbeResolved(c) /\ NoVideoBanner(OutputOf(c)) =>
         /\ InfoOf(c).width = 0 /\ InfoOf(c).height = 0
         /\ InfoOf(c).fps = Zero
         /\ InfoOf(c).codec = "unknown"
         /\ DurationPlaces(OutputOf(c)) = {} => InfoOf(c).duration = Zero
    /\ IsProbeOfBuffer(c) /\ Settled(c) /\ calls[c].ran # None
         /\ ~calls[c].ran[1].thrown =>
         calls[c].outcome.kind = "resolve"

\* C15 (as stated): ... and duration 0, whenever the text holds no video
\* banner.
C15_NoBannerZeroDuration ==
  \A c \in CallIds :
    ProbeResolved(c) /\ NoVideoBanner(OutputOf(c)) =>
      /\ InfoOf(c).width = 0 /\ InfoOf(c).height = 0
      /\ InfoOf(c).fps = Zero
      /\ InfoOf(c).codec = "unknown"
      /\ InfoOf(c).duration = Zero

\* C15 witness: a probe of a buffer whose runner wrote "Err" has resolved
\* with the defaults.
C15_Witness ==
  \E c \in CallIds :
    /\ ProbeResolved(c) /\ IsProbeOfBuffer(c) /\ OutputOf(c) = "Err"
    /\ InfoOf(c).width = 0 /\ InfoOf(c).codec = "unknown"
    /\ InfoOf(c).duration = Zero

\* C16: a probe that resolved from a text holding Duration: HH:MM:SS.ff
\* reports HH*3600 + MM*60 + SS.ff seconds (120.5 for 00:02:00.50), and 0
\* when the text holds no such pattern.
C16_DurationSeconds ==
  \A c \in CallIds :
    ProbeResolved(c) =>
      LET text == OutputOf(c)
          d == InfoOf(c).duration
      IN  /\ DurationPlaces(text) = {} => d = Zero
          /\ text = "Duration: 00:02:00.50" => d = [n |-> 1205, e |-> 1]
          /\ DurationPlaces(text) # {} =>
               LET i == Min(DurationPlaces(text))
                   ends == {j \in (i + 19)..Len(text) :
                              ~IsDigitAt(text, j + 1)}
                   ff == SubSeq(text, i + 19, Min(ends))
                   whole == 3600 * TwoDigits(text, i + 10)
                              + 60 * TwoDigits(text, i + 13)
                              + TwoDigits(text, i + 16)
               IN  /\ d.e <= Len(ff)
                   /\ d.n * Pow10(Len(ff) - d.e) =
                        whole * Pow10(Len(ff)) + parseInt(ff)

\* C16 witness: a probe of an existing path has resolved with 3723.25
\* seconds from a text holding Duration: 01:02:03.25.
C16_Witness ==
  \E c \in CallIds :
    /\ ProbeResolved(c) /\ calls[c].req.video.kind = "path"
    /\ DurationAt(OutputOf(c), 1)
    /\ SubSeq(OutputOf(c), 11, 21) = "01:02:03.25"
    /\ InfoOf(c).duration = [n |-> 372325, e |-> 2]

\* text holds word somewhere
Contains(text, word) ==
  \E i \in 1..Len(text) : HoldsAt(text, i, word, FALSE)

\* createVideoProcessor's check of c failed most recently
CheckFailed(c) ==
  api[c].lastCheck # None /\ ~api[c].lastCheck[1].ok

\* C17: a call of createVideoProcessor with autoInstall = false whose
\* availability check failed has made no installation attempt, can only go
\* on to reject, and rejects with a message containing "FFmpeg"; and
\* whenever createVideoProcessor returns a processor, the most recent
\* availability check, made for the command the processor is configured
\* with, returned true.
C17_CreateRejectsWithoutFFmpeg ==
  \A c \in CallIds :
    api[c].fn = "createVideoProcessor" =>
      /\ (api[c].options.autoInstall = Some(FALSE) /\ CheckFailed(c)) =>
           /\ api[c].installs = 0
           /\ api[c].checks = 1
           /\ api[c].pc \in {"getInstallHint", "done"}
           /\ api[c].pc = "done" =>
                /\ api[c].outcome.kind = "reject"
                /\ Contains(api[c].outcome.error, "FFmpeg")
      /\ api[c].outcome.kind = "resolve" =>
           /\ api[c].lastCheck =
                Some([command |-> api[c].outcome.value.ffmpegCommand,
                      ok |-> TRUE])
           /\ api[c].outcome.value.ffmpegCommand =
                commandOf(api[c].options.ffmpegPath)
      /\ (api[c].pc = "done" /\ CheckFailed(c)) =>
           api[c].outcome.kind = "reject"

\* C17 witness: createVideoProcessor({ffmpegPath: "nonexistent-ffmpeg",
\* autoInstall: false}) has rejected after its one failed check.
C17_Witness ==
  \E c \in CallIds :
    /\ api[c].fn = "createVideoProcessor"
    /\ api[c].options.ffmpegPath = Some("nonexistent-ffmpeg")
    /\ api[c].options.autoInstall = Some(FALSE)
    /\ CheckFailed(c)
    /\ api[c].pc = "done"
    /\ api[c].outcome.kind = "reject"
    /\ api[c].installs = 0

\* call c of a convenience function began after a creation of the default
\* processor had succeeded
BeganAfterCreation(c) ==
  api[c].fn \in ConvenienceFns /\ api[c].known # {}

\* C18: a convenience call that began after a creation of the default
\* processor had succeeded runs no availability check and uses the processor
\* of that creation, whichever creation it was.
C18_SameDefaultProcessor ==
  \A c \in CallIds :
    BeganAfterCreation(c) =>
      /\ api[c].checks = 0
      /\ api[c].installs = 0
      /\ api[c].self # None
      /\ \A id \in api[c].known : api[c].self[1].id = id

\* call c is getVideoInfo of a path at which no file exists, and the
\* default processor's getInfo has been invoked
ProbesMissingPath(c) ==
  /\ api[c].fn = "getVideoInfo"
  /\ api[c].pc = "invoked"
  /\ calls[c].req.video.kind = "path"
  /\ calls[c].req.video.path \notin DOMAIN fs

\* C19: getVideoInfo of a path at which no file exists never resolves, and
\* when it settles it has rejected with an error; so has a getVideoInfo
\* whose default processor could not be created.
C19_MissingPathRejects ==
  \A c \in CallIds :
    /\ ProbesMissingPath(c) =>
         /\ calls[c].outcome.kind # "resolve"
         /\ Settled(c) =>
              /\ calls[c].outcome.kind = "reject"
              /\ calls[c].outcome.error # ""
    /\ (api[c].fn = "getVideoInfo" /\ api[c].pc = "done") =>
         /\ api[c].outcome.kind = "reject"
         /\ api[c].outcome.error # ""

\* C19 witness: getVideoInfo("missing.mp4") has rejected after the tool ran
\* and returned.
C19_Witness ==
  \E c \in CallIds :
    /\ ProbesMissingPath(c)
    /\ calls[c].req.video.path = "missing.mp4"
    /\ calls[c].ran # None /\ ~calls[c].ran[1].thrown
    /\ Settled(c)
    /\ calls[c].outcome.kind = "reject"

\* the values that follow a -preset token in a vector
PresetsOf(args) ==
  {args[i + 1] : i \in {j \in 1..(Len(args) - 1) : args[j] = "-preset"}}

\* call c is a convert or a compress whose vector has been built
BuiltVector(c) ==
  calls[c].op \in {"convert", "compress"} /\ calls[c].args # <<>>

\* call c is a convert whose codec is av1
ConvertsToAv1(c) ==
  calls[c].op = "convert" /\ codecLowerOf(calls[c].req.options) = Some("av1")

\* the presets of the vector of c are fast, medium, slow for quality low,
\* medium, high and whenUnset for no quality, and none for convert to av1
PresetRule(c, whenUnset) ==
  LET quality == calls[c].req.options.quality
      presets == PresetsOf(calls[c].args)
  IN  IF ConvertsToAv1(c) THEN presets = {}
      ELSE /\ quality = Some("low") => presets = {"fast"}
           /\ quality = Some("medium") => presets = {"medium"}
           /\ quality = Some("high") => presets = {"slow"}
           /\ quality = None => presets = whenUnset

\* C20 as stated: in the vectors of convert with a codec other than av1 and
\* of compress the speed preset is fast, medium, slow for quality low,
\* medium, high, and medium when quality is unset; convert with codec av1
\* has no speed preset.
C20_PresetMediumWhenUnset ==
  \A c \in CallIds : BuiltVector(c) => PresetRule(c, {"medium"})

\* C20, amended: in the vectors of convert with a codec other than av1 and
\* of compress the speed preset is fast, medium, slow for quality low,
\* medium, high, and the vector holds no speed preset when quality is unset;
\* convert with codec av1 has no speed preset.
C20_SpeedPreset ==
  \A c \in CallIds : BuiltVector(c) => PresetRule(c, {})

\* C20 witness: a convert to vp9 with quality low has built a vector whose
\* speed preset is fast.
C20_Witness ==
  \E c \in CallIds :
    /\ BuiltVector(c) /\ calls[c].op = "convert"
    /\ calls[c].req.options.codec = Some("vp9")
    /\ calls[c].req.options.quality = Some("low")
    /\ PresetsOf(calls[c].args) = {"fast"}

\* the encoder the claim names for a codec name
EncoderFor(name) ==
  LET lower == toLowerCase(name)
  IN  CASE lower = "h264" -> "libx264"
        [] lower \in {"h265", "hevc"} -> "libx265"
        [] lower = "vp9" -> "libvpx-vp9"
        [] lower = "av1" -> "libaom-av1"
        [] lower = "vp8" -> "libvpx"
        [] OTHER -> name

\* C21: in a convert vector the value after -c:v is libx264 for h264,
\* libx265 for h265 and hevc, libvpx-vp9 for vp9, libaom-av1 for av1 and
\* libvpx for vp8, in any letter case, and the codec name itself for any
\* other name; without a codec the vector has no -c:v token.
C21_EncoderToken ==
  \A c \in CallIds :
    (calls[c].op = "convert" /\ calls[c].args # <<>>) =>
      LET codec == calls[c].req.options.codec
      IN  ValuesOf(calls[c].args, "-c:v") =
            IF codec = None THEN {} ELSE {EncoderFor(codec[1])}

\* the places of a vector that hold flag
PlacesOf(args, flag) == {i \in 1..Len(args) : args[i] = flag}

\* C22: a convert vector holds -c:a once, followed by libopus when the
\* codec is av1 in any letter case and by aac for any other codec and for
\* no codec, whatever the other options; a compress vector holds -c:v once,
\* followed by libx264, and -c:a once, followed by aac.
C22_AudioCodecPair ==
  \A c \in CallIds :
    /\ (calls[c].op = "convert" /\ calls[c].args # <<>>) =>
         LET codec == calls[c].req.options.codec
             av1 == codec # None /\ toLowerCase(codec[1]) = "av1"
         IN  /\ Cardinality(PlacesOf(calls[c].args, "-c:a")) = 1
             /\ ValuesOf(calls[c].args, "-c:a") =
                  {IF av1 THEN "libopus" ELSE "aac"}
    /\ (calls[c].op = "compress" /\ calls[c].args # <<>>) =>
         /\ Cardinality(PlacesOf(calls[c].args, "-c:v")) = 1
         /\ ValuesOf(calls[c].args, "-c:v") = {"libx264"}
         /\ Cardinality(PlacesOf(calls[c].args, "-c:a")) = 1
         /\ ValuesOf(calls[c].args, "-c:a") = {"aac"}

\* C22 witness: a convert to AV1 in capitals, with a format, a bitrate and
\* a quality, has built a vector holding -c:a libopus.
C22_Witness ==
  \E c \in CallIds :
    /\ calls[c].op = "convert"
    /\ calls[c].req.options.codec = Some("AV1")
    /\ calls[c].req.options.format # None
    /\ TruthyNum(calls[c].req.options.bitrate)
    /\ calls[c].req.options.quality = Some("high")
    /\ HasPair(calls[c].args, "-c:a", "libopus")

\* the places of text at which word begins
Finds(text, word) == {i \in 1..Len(text) : HoldsAt(text, i, word, FALSE)}

\* the part of text between the first before and the first after that
\* follows it
Between(text, before, after) ==
  LET from == Min(Finds(text, before)) + Len(before)
      to == Min({i \in Finds(text, after) : i >= from})
  IN  SubSeq(text, from, to - 1)

\* the filter expression of the addWatermark call c
FilterOf(c) ==
  CHOOSE f \in ValuesOf(calls[c].args, "-vf")
               \cup ValuesOf(calls[c].args, "-filter_complex") : TRUE

\* the opacity the claim expects for the options o: the supplied one, 1
\* when none is supplied
ClaimedOpacity(o) == String(IF o.opacity = None THEN 1 ELSE o.opacity[1])

\* C23: the filter of a text watermark holds fontcolor=<color>@<opacity>
\* with the supplied opacity, 0 included, and with 1 when no opacity is
\* supplied; the filter of an image watermark scales width and height by
\* the supplied opacity, and by 1 when none is supplied.
C23_SuppliedOpacity ==
  \A c \in CallIds :
    (calls[c].op = "addWatermark" /\ calls[c].args # <<>>) =>
      LET o == calls[c].req.options
      IN  /\ TextBranch(o) =>
               Between(FilterOf(c), "@", ":x=") = ClaimedOpacity(o)
          /\ ImageBranch(o) =>
               /\ Between(FilterOf(c), "scale=iw*", ":ih*")
                    = ClaimedOpacity(o)
               /\ Between(FilterOf(c), ":ih*", "[overlay]")
                    = ClaimedOpacity(o)

\* call c has been made on a processor
Made(c) == calls[c].op # "none"

\* the errors of the file store steps that come before the tool
FileStoreErrors ==
  {"makeTempFile failed", "writeTextFile failed", "makeTempDir failed",
   "writeFile failed"}

\* C24 as stated: a call never invokes the tool more than once, a settled
\* call has invoked it exactly once, and a settled probe of a buffer has
\* issued exactly one write of its temp file and then one invocation.
C24_ExactlyOneInvocation ==
  \A c \in CallIds :
    Made(c) =>
      /\ calls[c].spawns <= 1
      /\ Settled(c) => calls[c].spawns = 1
      /\ (Settled(c) /\ IsProbeOfBuffer(c)) =>
           calls[c].writes = 1 /\ calls[c].spawns = 1

\* C24, amended: a call never invokes the tool more than once, whatever the
\* tool answers; a settled call has invoked it exactly once unless a file
\* store step before the tool failed, and then not at all; a probe of a
\* buffer never issues more than one write, has issued exactly one write
\* before it invokes the tool, and has issued none only when the temporary
\* directory could not be made.
C24_OneInvocationNoRetry ==
  \A c \in CallIds :
    Made(c) =>
      /\ calls[c].spawns <= 1
      /\ calls[c].writes <= 1
      /\ calls[c].ran # None => calls[c].spawns = 1
      /\ Settled(c) =>
           IF calls[c].outcome.kind = "reject"
                /\ calls[c].outcome.error \in FileStoreErrors
                /\ calls[c].ran = None
           THEN calls[c].spawns = 0
           ELSE calls[c].spawns = 1 /\ calls[c].ran # None
      /\ IsProbeOfBuffer(c) =>
           /\ calls[c].spawns = 1 => calls[c].writes = 1
           /\ (Settled(c) /\ calls[c].writes = 0) =>
                calls[c].outcome = Reject("makeTempDir failed")

\* C24 witness: a probe of a buffer whose one tool run failed has settled
\* after one write and one invocation.
C24_Witness ==
  \E c \in CallIds :
    /\ IsProbeOfBuffer(c) /\ Settled(c) /\ RunnerFailed(c)
    /\ calls[c].writes = 1 /\ calls[c].spawns = 1

(***************************************************************************)
(* What the patterns of getInfo accept, said with positions in the text    *)
(* and without the matcher.                                                *)
(***************************************************************************)
\* the places of text at which word begins, letter case ignored
FindsAnyCase(text, word) ==
  {i \in 1..Len(text) : HoldsAt(text, i, word, TRUE)}
\* no line ends in text from i to j
OnOneLine(text, i, j) == \A k \in i..j : CharAt(text, k) \notin LineEnds
\* the places m at which a run of digits beginning at j may end
DigitRunsFrom(text, j) ==
  {m \in j..Len(text) : \A k \in j..m : IsDigitAt(text, k)}
\* the places at which digits, or digits "." digits, beginning at k may end
NumbersFrom(text, k) ==
  DigitRunsFrom(text, k)
  \cup UNION {IF HoldsAt(text, m + 1, ".", FALSE)
              THEN DigitRunsFrom(text, m + 2) ELSE {} :
                m \in DigitRunsFrom(text, k)}
\* after place q come blanks, if any, and then the unit
FollowedBy(text, q, unit, anyCase) ==
  \E p \in (q + 1)..Len(text) :
    /\ \A k \in (q + 1)..(p - 1) : CharAt(text, k) \in Spaces
    /\ HoldsAt(text, p, unit, anyCase)
\* the places on the line after a banner (six characters long) at i
AfterBanner(text, i) ==
  {j \in (i + 6)..Len(text) : OnOneLine(text, i + 6, j - 1)}

\* the resolution tokens W x H of the line of a Video: banner at i that a
\* frame rate F fps follows on the same line: the places <<j, m, n, k, q>>
\* with W at j..m, x at m + 1, H at m + 2..n and F at k..q
ResolutionsAt(text, i) ==
  UNION {UNION {UNION {UNION {
    {<<j, m, n, k, q>> : q \in {e \in NumbersFrom(text, k) :
                                  FollowedBy(text, e, "fps", FALSE)}} :
      k \in {e \in (n + 1)..Len(text) : OnOneLine(text, n + 1, e - 1)}} :
      n \in IF HoldsAt(text, m + 1, "x", FALSE)
            THEN DigitRunsFrom(text, m + 2) ELSE {}} :
      m \in DigitRunsFrom(text, j)} :
      j \in AfterBanner(text, i)}
Resolutions(text) ==
  UNION {ResolutionsAt(text, i) : i \in Finds(text, "Video:")}

\* the texts of the three audio patterns are there
AudioCodecLetters ==
  {"a", "c", "|", "m", "p", "3", "o", "u", "s", "v", "r", "b", "i"}
HasAudioCodec(text) ==
  \E i \in FindsAnyCase(text, "Audio:") : \E j \in AfterBanner(text, i) :
    j <= Len(text) /\ lowerChar(CharAt(text, j)) \in AudioCodecLetters
HasAudioNumber(text, unit) ==
  \E i \in FindsAnyCase(text, "Audio:") : \E j \in AfterBanner(text, i) :
    \E m \in DigitRunsFrom(text, j) : FollowedBy(text, m, unit, TRUE)

\* per diagnostic text: what its lines offer to the patterns
Offers ==
  [text \in DiagnosticTexts |->
     [resolutions |-> Resolutions(text),
      audioCodec |-> HasAudioCodec(text),
      audioBitrate |-> HasAudioNumber(text, "kb/s"),
      audioSampleRate |-> HasAudioNumber(text, "Hz")]]

\* width, height and fps of info are those of the resolution token and the
\* frame rate at the places r of text
TakenFrom(info, text, r) ==
  /\ info.width = parseInt(SubSeq(text, r[1], r[2]))
  /\ info.height = parseInt(SubSeq(text, r[2] + 2, r[3]))
  /\ info.fps = parseFloat(SubSeq(text, r[4], r[5]))

\* C25: in the result of a probe, width, height and fps are those of one
\* resolution token with a frame rate after it on a Video: line, or, when
\* the text has no such line, all three 0; audioCodec, audioBitrate and
\* audioSampleRate are each absent exactly when the text has nothing for
\* their own pattern, and are never 0 in its place.
C25_VideoFieldsTogether ==
  \A c \in CallIds :
    ProbeResolved(c) =>
      LET info == InfoOf(c)
          text == OutputOf(c)
          offer == Offers[text]
      IN  /\ IF offer.resolutions = {}
             THEN info.width = 0 /\ info.height = 0 /\ info.fps = Zero
             ELSE \E r \in offer.resolutions : TakenFrom(info, text, r)
          /\ info.audioCodec = None <=> ~offer.audioCodec
          /\ info.audioBitrate = None <=> ~offer.audioBitrate
          /\ info.audioSampleRate = None <=> ~offer.audioSampleRate

\* C25 witness: a probe has resolved from a text whose Video: line has a
\* resolution but no frame rate and whose Audio: line has a bitrate but no
\* sample rate: width, height and fps are 0, the audio bitrate is there and
\* the sample rate is absent.
C25_Witness ==
  \E c \in CallIds :
    /\ ProbeResolved(c)
    /\ Finds(OutputOf(c), "640x480") # {}
    /\ Offers[OutputOf(c)].resolutions = {}
    /\ InfoOf(c).width = 0 /\ InfoOf(c).height = 0 /\ InfoOf(c).fps = Zero
    /\ InfoOf(c).audioBitrate = Some(96000)
    /\ InfoOf(c).audioSampleRate = None

\* the text of path after its last dot, in lower case; no dot: nothing
ExtensionOf(path) ==
  LET dots == Finds(path, ".")
  IN  IF dots = {} THEN ""
      ELSE toLowerCase(SubSeq(path, Max(dots) + 1, Len(path)))

\* C26: the format of a probe result is the lower-cased extension of the
\* probed path, and mp4 for a path without extension, whatever the
\* diagnostic text; the size is the stat size of the file for a path input
\* and the length of the buffer for a buffer input.
C26_FormatAndSize ==
  \A c \in CallIds :
    ProbeResolved(c) =>
      LET info == InfoOf(c)
          video == calls[c].req.video
          extension == ExtensionOf(calls[c].path)
      IN  /\ info.format = IF extension = "" THEN "mp4" ELSE extension
          /\ video.kind = "path" =>
               /\ calls[c].path = video.path
               /\ info.size = fs[video.path].size
          /\ video.kind = "buffer" => info.size = video.length

\* createVideoProcessor is at work for call c: between the start of the
\* first availability check and the return or the throw of ensureFFmpeg
Creating(c) ==
  api[c].pc \in {"checkFFmpeg", "tryAutoInstall", "recheck", "getInstallHint"}

\* C27: however the convenience calls overlap, at most one creation of the
\* default processor (with its availability check and its installation
\* attempt) is at work at a time, at most one processor is ever made and
\* stored, and all calls that hold a processor hold the same one.
C27_CreatedOnce ==
  /\ Cardinality({c \in CallIds : Creating(c)}) <= 1
  /\ made <= 1
  /\ Cardinality(stored) <= 1
  /\ \A c, d \in CallIds :
       (api[c].self # None /\ api[d].self # None) => api[c].self = api[d].self

\* two calls, begun before any default processor existed, each hold a
\* processor of their own
C27_TwoProcessors ==
  \E c, d \in CallIds :
    /\ api[c].known = {} /\ api[d].known = {}
    /\ api[c].self # None /\ api[d].self # None
    /\ api[c].self # api[d].self

\* the availability check of call c found FFmpeg
CheckPassed(c) == api[c].lastCheck # None /\ api[c].lastCheck[1].ok

\* C28: a creation of the default processor that fails stores nothing
\* (defaultProcessor is set only together with a processor that was made),
\* the call rejects without a processor, and a call begun after a failure
\* while no default processor is stored runs the availability check itself
\* and, when that check finds FFmpeg, obtains a processor.
C28_FailureNotCached ==
  /\ stored = {} => defaultProcessor = None
  /\ \A c \in CallIds :
       api[c].fn \in ConvenienceFns =>
         /\ api[c].pc = "done" =>
              /\ api[c].outcome.kind = "reject"
              /\ api[c].self = None
              /\ ~CheckPassed(c)
         /\ (api[c].after > 0 /\ api[c].known = {}) => api[c].checks >= 1
         /\ (api[c].after > 0 /\ CheckPassed(c)) =>
              /\ api[c].pc \in {"ready", "invoked"}
              /\ api[c].self # None
              /\ defaultProcessor # None

\* a call begun after a creation had failed has run the check, found FFmpeg,
\* and invoked the processor it created
C28_Witness ==
  \E c \in CallIds :
    /\ api[c].fn \in ConvenienceFns
    /\ api[c].after > 0
    /\ api[c].known = {}
    /\ api[c].checks >= 1
    /\ CheckPassed(c)
    /\ api[c].pc = "invoked"
    /\ defaultProcessor = api[c].self

\* the resolution tokens of text that are whole: no digit stands before W
\* or after H
WholeResolutions(text) ==
  {r \in Resolutions(text) :
     ~IsDigitAt(text, r[1] - 1) /\ ~IsDigitAt(text, r[3] + 1)}
\* of the whole tokens digits-x-digits before a frame rate, the last: the
\* resolution; the tokens before it on the line are other things
ResolutionTokens(text) ==
  {r \in WholeResolutions(text) :
     \A o \in WholeResolutions(text) : o[1] <= r[1]}

\* C29: when the Video: line of the text has a resolution token W x H and a
\* frame rate after it, the probe reports W as width and H as height, also
\* when a token of the form digits-x-digits stands earlier on the line.
C29_ResolutionToken ==
  \A c \in CallIds :
    ProbeResolved(c) =>
      \A r \in ResolutionTokens(OutputOf(c)) :
        /\ InfoOf(c).width = parseInt(SubSeq(OutputOf(c), r[1], r[2]))
        /\ InfoOf(c).height = parseInt(SubSeq(OutputOf(c), r[2] + 2, r[3]))

\* a probe has resolved from a Video: line with one token digits-x-digits,
\* and reports that token's numbers
C29_OneToken ==
  \E c \in CallIds :
    /\ ProbeResolved(c)
    /\ Finds(OutputOf(c), "640x480, 30 fps") # {}
    /\ ResolutionTokens(OutputOf(c)) # {}
    /\ InfoOf(c).width = 640 /\ InfoOf(c).height = 480

\* the files there were before any call
FilesAtStart ==
  [p \in {"a.mp4", "b.mp4", "clip"} |-> [writer |-> 0, size |-> 2, text |-> ""]]

\* C30: a probe of a path issues no write and no removal and creates no
\* file, and while it runs and after it has settled, resolved or rejected,
\* the files are those there were before it; a probe awaits or has issued a
\* removal only for a byte buffer whose temp file it wrote itself.
C30_PathProbeTouchesNoFile ==
  \A c \in CallIds :
    calls[c].op = "getInfo" =>
      /\ calls[c].req.video.kind = "path" =>
           /\ calls[c].writes = 0
           /\ ~calls[c].created
           /\ calls[c].removes = 0
           /\ calls[c].pc # "remove"
           /\ calls[c].removedOf = {}
           /\ fs = FilesAtStart
      /\ (calls[c].pc = "remove" \/ calls[c].removes > 0) =>
           /\ IsProbeOfBuffer(c)
           /\ calls[c].created
           /\ calls[c].path \notin DOMAIN FilesAtStart

\* a probe of the path of a file has rejected, and the file is as it was
C30_Witness ==
  \E c \in CallIds :
    /\ calls[c].op = "getInfo"
    /\ calls[c].req.video = [kind |-> "path", path |-> "a.mp4", length |-> 0]
    /\ Settled(c)
    /\ calls[c].outcome.kind = "reject"
    /\ "a.mp4" \in DOMAIN fs
    /\ fs["a.mp4"] = FilesAtStart["a.mp4"]

\* the same for a probe that has resolved
C30_ResolvedToo ==
  \E c \in CallIds :
    /\ ProbeResolved(c)
    /\ calls[c].req.video.kind = "path"
    /\ fs = FilesAtStart

====
